---- MODULE Spec2Model ----
(***************************************************************************)
(* OmniSession: the background worker of the browser extension            *)
(* (src/extension/popup.js holds the popup script and the two variants of *)
(* the background script: identity-scoped with end-to-end encryption,     *)
(* lines 118-861, and plain, lines 863-1452).                             *)
(*                                                                         *)
(* Strings that the code takes apart or puts together (URLs, hostnames,   *)
(* cookie names, domains, paths, merge keys) are sequences of tokens: a   *)
(* token is a separator such as ".", "|" or "://", a path segment that    *)
(* starts with "/", or a run of other characters.  String operations act  *)
(* on the tokens as the code acts on the characters.                      *)
(***************************************************************************)
EXTENDS Integers, Sequences, FiniteSets, TLC

VARIABLES
  variant,    \* which background script is installed: "scoped" or "plain"
  settings,   \* chrome.storage.local: [apiPassword, userId]
  activeTab,  \* the tab chrome.tabs.query({active, currentWindow}) returns
  jar,        \* the browser's cookies, in the order the cookie API lists them
  ops,        \* one record per handler invocation of the message listener
  lanes,      \* the invocations that may be started
  openTabs,   \* the ephemeral tabs that are open: records [id, url]
  remote,     \* the record the remote store holds for the identity
  popup,      \* the popup page: its buttons and the messages it awaits
  call        \* a call of one of the pure functions: its arguments and its result

vars == <<variant, settings, activeTab, jar, ops, lanes, openTabs, remote, popup, call>>

----------------------------------------------------------------------------
(* Strings as token sequences *)

PathTokens == {"/", "/x"}

EmptyStr == <<>>

\* (variation: the dot is kept)
StripLeadingDot_Keep(s) == s

\* s.replace(/^\./, "")
StripLeadingDot(s) == IF Len(s) > 0 /\ s[1] = "." THEN Tail(s) ELSE s

\* s.endsWith(suffix)
EndsWith(s, suffix) ==
  /\ Len(suffix) <= Len(s)
  /\ SubSeq(s, Len(s) - Len(suffix) + 1, Len(s)) = suffix

\* s.split("."): the parts between the dots
RECURSIVE SplitDot(_)
SplitDot(s) ==
  IF \A i \in 1..Len(s) : s[i] # "."
    THEN <<s>>
    ELSE LET k == CHOOSE i \in 1..Len(s) :
                    s[i] = "." /\ \A j \in 1..(i - 1) : s[j] # "."
         IN <<SubSeq(s, 1, k - 1)>> \o SplitDot(SubSeq(s, k + 1, Len(s)))

\* parts.join(".")
RECURSIVE JoinDot(_)
JoinDot(parts) ==
  IF Len(parts) = 0 THEN <<>>
  ELSE IF Len(parts) = 1 THEN parts[1]
  ELSE parts[1] \o <<".">> \o JoinDot(Tail(parts))

\* new URL(url).hostname: the tokens between "://" and the path
UrlHostname(url) ==
  LET n == Len(url)
      stop == IF \E i \in 3..n : url[i] \in PathTokens
                THEN CHOOSE i \in 3..n :
                       url[i] \in PathTokens /\ \A j \in 3..(i - 1) : url[j] \notin PathTokens
                ELSE n + 1
  IN SubSeq(url, 3, stop - 1)

\* new URL(url).origin
UrlOrigin(url) == SubSeq(url, 1, 2) \o UrlHostname(url)

\* `https://${host}` and `http://${host}`
HttpsUrl(host) == <<"https", "://">> \o host
HttpUrl(host) == <<"http", "://">> \o host

\* (variation: the hostname is returned whole)
getRootDomain_Hostname(url) == UrlHostname(url)

getRootDomain(url) ==
  LET hostname == UrlHostname(url)
      parts == SplitDot(hostname)
  IN IF Len(parts) > 2
       THEN JoinDot(SubSeq(parts, Len(parts) - 1, Len(parts)))
       ELSE hostname

\* (variation: only chrome:// pages are restricted)
isRestrictedUrl_ChromeOnly(url) ==
  /\ Len(url) >= 2
  /\ url[2] = "://"
  /\ url[1] = "chrome"

isRestrictedUrl(url) ==
  /\ Len(url) >= 2
  /\ url[2] = "://"
  /\ url[1] \in {"chrome", "chrome-extension", "edge"}

----------------------------------------------------------------------------
(* Cookies *)

\* A cookie record of chrome.cookies: name, domain and path are token
\* sequences; size is the length in bytes of the cookie's JSON text.
Cookie(name, value, domain, path, secure, hostOnly, size) ==
  [name |-> name, value |-> value, domain |-> domain, path |-> path,
   secure |-> secure, httpOnly |-> FALSE, hostOnly |-> hostOnly, size |-> size]

RECURSIVE Flat(_)
Flat(lists) == IF lists = <<>> THEN <<>> ELSE Head(lists) \o Flat(Tail(lists))

\* `${cookie.name}|${cookie.domain || ""}|${cookie.path || ""}`
CookieKey(cookie) == cookie.name \o <<"|">> \o cookie.domain \o <<"|">> \o cookie.path

\* (variation: a later record replaces the one kept for its key)
RECURSIVE MergeInto_LastWins(_, _)
MergeInto_LastWins(merged, rest) ==
  IF rest = <<>> THEN merged
  ELSE LET cookie == Head(rest)
       IN IF cookie.name = EmptyStr
            THEN MergeInto_LastWins(merged, Tail(rest))
          ELSE IF \E i \in 1..Len(merged) : CookieKey(merged[i]) = CookieKey(cookie)
            THEN MergeInto_LastWins(
                   [i \in 1..Len(merged) |->
                      IF CookieKey(merged[i]) = CookieKey(cookie) THEN cookie ELSE merged[i]],
                   Tail(rest))
          ELSE MergeInto_LastWins(Append(merged, cookie), Tail(rest))

RECURSIVE MergeInto(_, _)
MergeInto(merged, rest) ==
  IF rest = <<>> THEN merged
  ELSE LET cookie == Head(rest)
       IN IF cookie.name = EmptyStr
            THEN MergeInto(merged, Tail(rest))
          ELSE IF \E i \in 1..Len(merged) : CookieKey(merged[i]) = CookieKey(cookie)
            THEN MergeInto(merged, Tail(rest))
          ELSE MergeInto(Append(merged, cookie), Tail(rest))

mergeCookies(cookieLists) == MergeInto(<<>>, Flat(cookieLists))

filterCookiesForDomain(cookies, rootDomain, currentHostname) ==
  LET Keep(cookie) ==
        LET cookieDomain == StripLeadingDot(cookie.domain)
        IN /\ cookieDomain # EmptyStr
           /\ \/ cookieDomain = currentHostname
              \/ cookieDomain = rootDomain
              \/ EndsWith(cookieDomain, <<".">> \o rootDomain)
  IN SelectSeq(cookies, Keep)

RECURSIVE AddHosts(_, _)
AddHosts(hosts, cookies) ==
  IF cookies = <<>> THEN hosts
  ELSE LET host == StripLeadingDot(Head(cookies).domain)
       IN IF host = EmptyStr \/ \E i \in 1..Len(hosts) : hosts[i] = host
            THEN AddHosts(hosts, Tail(cookies))
            ELSE AddHosts(Append(hosts, host), Tail(cookies))

collectCandidateHosts(cookies, currentHostname) == AddHosts(<<currentHostname>>, cookies)

RECURSIVE SumSizes(_)
SumSizes(cookies) ==
  IF cookies = <<>> THEN 0 ELSE Head(cookies).size + SumSizes(Tail(cookies))

\* length of JSON.stringify(cookies): the brackets, the cookies, the commas
getCookiesSizeBytes(cookies) ==
  2 + SumSizes(cookies) + (IF Len(cookies) > 1 THEN Len(cookies) - 1 ELSE 0)

COOKIE_SIZE_LIMIT_BYTES == 6144

----------------------------------------------------------------------------
(* The browser and the pages, as far as the worker sees them *)

OpIds == {1, 2}

Null == "null"

LoginHost == <<"login", ".", "example", ".", "com">>
RootHost == <<"example", ".", "com">>
ApiHost == <<"api", ".", "example", ".", "com">>
CdnHost == <<"cdn", ".", "example", ".", "com">>

ActiveUrl == <<"https", "://">> \o LoginHost \o <<"/x">>
RestrictedUrl == <<"chrome", "://", "extensions">>

NoTabId == <<0, 0>>
ActiveTabId == <<0, 1>>

\* tabs[0] of chrome.tabs.query: no tab, a tab without URL, an internal
\* page, a web page
NoTab == [id |-> NoTabId, url |-> EmptyStr]
ActiveTabs ==
  {NoTab,
   [id |-> ActiveTabId, url |-> EmptyStr],
   [id |-> ActiveTabId, url |-> RestrictedUrl],
   [id |-> ActiveTabId, url |-> ActiveUrl]}

\* localStorage of the page at an origin, as the injected read routine
\* returns it: an object from keys to strings
PageData(origin) == "token" :> origin

\* the same page's localStorage after its scripts have run again
PageDataLater(origin) == ("token" :> origin) @@ ("seen" :> origin)

EmptyObject == <<>>

\* A storage snapshot is an object keyed by origin; its keys keep the order
\* in which they were added, so it is a sequence of entries
HasKey(object, key) == \E i \in 1..Len(object) : object[i].key = key
Keys(object) == [i \in 1..Len(object) |-> object[i].key]
Lookup(object, key) == (CHOOSE e \in {object[i] : i \in 1..Len(object)} : e.key = key).value
Entry(key, value) == [key |-> key, value |-> value]

\* Where a tab opened at `url` may be when its load completes: there, on
\* the active tab's origin after a redirect, on an internal page, nowhere
FinalUrls(url) ==
  {url, <<"https", "://">> \o LoginHost \o <<"/">>, RestrictedUrl, EmptyStr}

\* chrome.cookies.getAll(query) on the jar: by domain, by URL, or all
DomainMatches(host, cookie) ==
  LET d == StripLeadingDot(cookie.domain)
  IN d # EmptyStr /\ (host = d \/ EndsWith(host, <<".">> \o d))

CookiesGetAll(query) ==
  LET ByDomain(cookie) ==
        LET d == StripLeadingDot(cookie.domain)
        IN d = query.domain \/ EndsWith(d, <<".">> \o query.domain)
      ByUrl(cookie) ==
        /\ IF cookie.hostOnly
             THEN cookie.domain = UrlHostname(query.url)
             ELSE DomainMatches(UrlHostname(query.url), cookie)
        /\ cookie.secure => query.url[1] = "https"
  IN IF "domain" \in DOMAIN query THEN SelectSeq(jar, ByDomain)
     ELSE IF "url" \in DOMAIN query THEN SelectSeq(jar, ByUrl)
     ELSE jar

----------------------------------------------------------------------------
(* The encryption envelope.  The primitives are symbolic: a derived key   *)
(* names the password and salt it came from, a ciphertext names the key,  *)
(* the nonce and the plaintext it was made of and carries its tag; byte   *)
(* strings and texts are tagged with their encoding, so that decoding     *)
(* what was never encoded fails as it does in the browser.                *)

KDF_ITERATIONS == 200000

Error == [ok |-> FALSE, value |-> Null]
Value(v) == [ok |-> TRUE, value |-> v]

bytesToBase64(bytes) == <<"b64", bytes>>

\* atob throws on text that is not base64
base64ToBytes(value) == IF value[1] = "b64" THEN Value(value[2]) ELSE Error

\* JSON.stringify and JSON.parse
JsonStringify(v) == <<"json", v>>
JsonParse(text) == IF text[1] = "json" THEN Value(text[2]) ELSE Error

\* PBKDF2-HMAC-SHA256 into an AES-256-GCM key
deriveKey(password, salt) ==
  [password |-> password, salt |-> salt, iterations |-> KDF_ITERATIONS]

\* crypto.subtle.encrypt and decrypt with AES-GCM: decryption checks the tag
AesGcmEncrypt(key, iv, plaintext) ==
  [key |-> key, iv |-> iv, plaintext |-> plaintext, tag |-> "valid"]

\* (variation: a cipher that does not authenticate)
AesGcmDecrypt_Unauthenticated(key, iv, ciphertext) == Value(ciphertext.plaintext)

AesGcmDecrypt(key, iv, ciphertext) ==
  IF ciphertext.tag = "valid" /\ ciphertext.key = key /\ ciphertext.iv = iv
    THEN Value(ciphertext.plaintext)
    ELSE Error

\* salt and nonce are what crypto.getRandomValues returns
encryptE2EPayload(payload, password, salt, nonce) ==
  LET key == deriveKey(password, salt)
      plaintext == JsonStringify(payload)
      ciphertext == AesGcmEncrypt(key, nonce, plaintext)
  IN [payload |-> bytesToBase64(ciphertext),
      salt |-> bytesToBase64(salt),
      nonce |-> bytesToBase64(nonce)]

decryptE2EPayload(payload, salt, nonce, password) ==
  LET saltBytes == base64ToBytes(salt)
      nonceBytes == base64ToBytes(nonce)
      cipherBytes == base64ToBytes(payload)
  IN IF ~saltBytes.ok \/ ~nonceBytes.ok \/ ~cipherBytes.ok THEN Error
     ELSE LET key == deriveKey(password, saltBytes.value)
              plaintext == AesGcmDecrypt(key, nonceBytes.value, cipherBytes.value)
          IN IF plaintext.ok THEN JsonParse(plaintext.value) ELSE Error

Salts == {"salt1"}
Nonces == {"nonce1"}

----------------------------------------------------------------------------
(* Handler invocations *)

IdleOp ==
  [type |-> "none", pc |-> "idle", err |-> "none", errStatus |-> 0,
   result |-> Null,
   tabUrl |-> EmptyStr, rootDomain |-> EmptyStr, userId |-> "",
   storeId |-> Null, qi |-> 0, buckets |-> <<>>, cookies |-> <<>>,
   localStorageMap |-> EmptyObject, hosts |-> <<>>, hi |-> 0,
   scheme |-> "", etab |-> NoTabId, currentTabUrl |-> EmptyStr,
   pending |-> Null, apiPassword |-> "", response |-> <<>>, replies |-> <<>>,
   requests |-> <<>>, setCalls |-> <<>>, writes |-> <<>>, applied |-> <<>>,
   reloads |-> 0, probe |-> "",
   created |-> 0, harvest |-> <<>>,
   stores |-> "", queries |-> <<>>]

\* throw new Error(...): the handler's promise rejects
Throw(op, kind) == [op EXCEPT !.pc = "failed", !.err = kind]

\* (variation: only the presence of a URL is checked)
TabError_UrlOnly(tab) ==
  IF tab = NoTab \/ tab.url = EmptyStr THEN "NoActiveTab" ELSE "none"

\* the checks every handler makes on the active tab
TabError(tab) ==
  IF tab = NoTab \/ tab.url = EmptyStr THEN "NoActiveTab"
  ELSE IF isRestrictedUrl(tab.url) THEN "UnsupportedPage"
  ELSE "none"

IsOpen(id) == \E t \in openTabs : t.id = id

TabUrlOf(id) == (CHOOSE t \in openTabs : t.id = id).url

\* the commands that have a handler; a message may also carry another
\* type, or none
Commands == {"backup", "restore", "delete", "check"}
MessageTypes == Commands \cup {"missing", "bogus"}

UnknownCommand == [ok |-> FALSE, error |-> "Unknown command"]

\* (variation: a command waits until no other handler is running)
Receive_Exclusive(o, type) ==
  /\ o \in lanes
  /\ \A other \in OpIds : ops[other].pc = "idle"
  /\ ops' = [ops EXCEPT ![o] =
       IF type \in Commands
         THEN [IdleOp EXCEPT !.type = type, !.pc = "tabs.query"]
         ELSE [IdleOp EXCEPT !.type = type, !.replies = <<UnknownCommand>>]]
  /\ UNCHANGED <<popup, call, variant, settings, activeTab, jar, lanes, openTabs, remote>>

\* chrome.runtime.onMessage listener: a message without a known type is
\* answered at once; otherwise the handler starts and runs to its first
\* await, the chrome.tabs.query of getActiveTab
Receive(o, type) ==
  /\ o \in lanes
  /\ ops[o].pc = "idle"
  /\ ops' = [ops EXCEPT ![o] =
       IF type \in Commands
         THEN [IdleOp EXCEPT !.type = type, !.pc = "tabs.query"]
         ELSE [IdleOp EXCEPT !.type = type, !.replies = <<UnknownCommand>>]]
  /\ UNCHANGED <<popup, call, variant, settings, activeTab, jar, lanes, openTabs, remote>>

\* (variation: the handler's rejection is answered like its result)
Reply_AlwaysOk(op) == [ok |-> TRUE, result |-> op.result]

\* .then(result => sendResponse({ok: true, result}))
\* .catch(error => sendResponse({ok: false, error: error.message}))
Reply(op) ==
  IF op.pc = "done" THEN [ok |-> TRUE, result |-> op.result]
  ELSE [ok |-> FALSE, error |-> op.err]

\* the handler's promise has settled: sendResponse is called, and the
\* invocation is over
Respond(o) ==
  /\ ops[o].pc \in {"done", "failed"}
  /\ ops' = [ops EXCEPT ![o] =
       [IdleOp EXCEPT !.type = ops[o].type, !.err = ops[o].err,
                      !.replies = Append(ops[o].replies, Reply(ops[o]))]]
  /\ UNCHANGED <<popup, call, variant, settings, activeTab, jar, lanes, openTabs, remote>>

----------------------------------------------------------------------------
(* runBackup *)

At(o, type, pc) == ops[o].type = type /\ ops[o].pc = pc

\* const tab = await getActiveTab(); the checks; getRootDomain; then the
\* scoped variant reads the user id and the plain one looks up the store
B_ActiveTab(o) ==
  /\ At(o, "backup", "tabs.query")
  /\ \E ok \in BOOLEAN :
       ops' = [ops EXCEPT ![o] =
         IF ~ok THEN Throw(@, "ApiError")
         ELSE IF TabError(activeTab) # "none" THEN Throw(@, TabError(activeTab))
         ELSE [@ EXCEPT !.tabUrl = activeTab.url,
                        !.rootDomain = getRootDomain(activeTab.url),
                        !.pc = IF variant = "scoped" THEN "get.userId" ELSE "stores"]]
  /\ UNCHANGED <<popup, call, variant, settings, activeTab, jar, lanes, openTabs, remote>>

\* (variation: a missing user id is not checked)
B_UserId_Anonymous(o) ==
  /\ At(o, "backup", "get.userId")
  /\ \E ok \in BOOLEAN :
       ops' = [ops EXCEPT ![o] =
         IF ~ok THEN Throw(@, "ApiError")
         ELSE [@ EXCEPT !.userId = settings.userId, !.pc = "stores"]]
  /\ UNCHANGED <<popup, call, variant, settings, activeTab, jar, lanes, openTabs, remote>>

\* const userId = await getUserId(); if (!userId) throw
B_UserId(o) ==
  /\ At(o, "backup", "get.userId")
  /\ \E ok \in BOOLEAN :
       ops' = [ops EXCEPT ![o] =
         IF ~ok THEN Throw(@, "ApiError")
         ELSE IF settings.userId = "" THEN Throw(@, "MissingIdentity")
         ELSE [@ EXCEPT !.userId = settings.userId, !.pc = "stores"]]
  /\ UNCHANGED <<popup, call, variant, settings, activeTab, jar, lanes, openTabs, remote>>

\* chrome.cookies.getAllCookieStores: the store that holds the tab, none
\* that does, or an error; the last two leave storeId null
B_Stores(o) ==
  /\ At(o, "backup", "stores")
  /\ \E outcome \in {"found", "absent", "error"} :
       ops' = [ops EXCEPT ![o] =
                 [@ EXCEPT !.storeId = IF outcome = "found" THEN "0" ELSE Null,
                           !.stores = outcome, !.qi = 1, !.pc = "getAll"]]
  /\ UNCHANGED <<popup, call, variant, settings, activeTab, jar, lanes, openTabs, remote>>

cookieQueries(op) ==
  <<[domain |-> op.rootDomain],
    [url |-> op.tabUrl],
    [url |-> UrlOrigin(op.tabUrl)],
    [url |-> UrlOrigin(op.tabUrl) \o <<"/">>]>>

\* (variation: the store id is left out)
queryWithStore_Unscoped(query, storeId) == query

\* storeId ? {...query, storeId} : query
queryWithStore(query, storeId) ==
  IF storeId # Null THEN query @@ [storeId |-> storeId] ELSE query

\* the call of chrome.cookies.getAll and what it returned, for the
\* properties of the collection; kept until the collection is over
Issued(op, query, result) ==
  [op EXCEPT !.queries = Append(@, [query |-> query, result |-> result])]

\* (variation: the guard counts the cookies instead of their bytes)
CookieSizeExceeded_ByCount(cookies) ==
  variant = "scoped" /\ Len(cookies) > COOKIE_SIZE_LIMIT_BYTES

\* the size guard of the scoped variant; the plain variant has none
CookieSizeExceeded(cookies) ==
  variant = "scoped" /\ getCookiesSizeBytes(cookies) > COOKIE_SIZE_LIMIT_BYTES

\* after the cookies are final: the size guard, then readLocalStorage(tab.id)
AfterCollect(op, cookies) ==
  IF CookieSizeExceeded(cookies)
    THEN Throw([op EXCEPT !.cookies = cookies], "PayloadTooLarge")
    ELSE [op EXCEPT !.cookies = cookies, !.pc = "ls.read"]

\* one of the four scoped queries returns: its matches, or nothing (no
\* single query is reliable), or an error; after the fourth, the merge
B_Query(o) ==
  /\ At(o, "backup", "getAll")
  /\ \E ok \in BOOLEAN, complete \in BOOLEAN :
       LET query == queryWithStore(cookieQueries(ops[o])[ops[o].qi], ops[o].storeId)
           result == IF complete THEN CookiesGetAll(query) ELSE <<>>
           op == Issued(ops[o], query, result)
           buckets == Append(op.buckets, result)
           cookies == mergeCookies(buckets)
       IN ops' = [ops EXCEPT ![o] =
            IF ~ok THEN Throw(ops[o], "ApiError")
            ELSE IF op.qi < 4 THEN [op EXCEPT !.buckets = buckets, !.qi = op.qi + 1]
            ELSE IF Len(cookies) = 0
              THEN [op EXCEPT !.buckets = <<>>, !.cookies = cookies, !.pc = "getAll.all"]
            ELSE AfterCollect([op EXCEPT !.buckets = <<>>], cookies)]
  /\ UNCHANGED <<popup, call, variant, settings, activeTab, jar, lanes, openTabs, remote>>

\* the fallback scan of the whole store
B_Fallback(o) ==
  /\ At(o, "backup", "getAll.all")
  /\ \E ok \in BOOLEAN :
       LET allQuery == queryWithStore(EmptyObject, ops[o].storeId)
           allCookies == CookiesGetAll(allQuery)
           op == Issued(ops[o], allQuery, allCookies)
           cookies == mergeCookies(<<op.cookies,
                        filterCookiesForDomain(allCookies, op.rootDomain,
                                               UrlHostname(op.tabUrl))>>)
       IN ops' = [ops EXCEPT ![o] =
            IF ~ok THEN Throw(ops[o], "ApiError") ELSE AfterCollect(op, cookies)]
  /\ UNCHANGED <<popup, call, variant, settings, activeTab, jar, lanes, openTabs, remote>>

\* (variation: the loop takes the last host first)
NextHost_Last(hosts, from, currentHostname) ==
  IF \E i \in from..Len(hosts) : hosts[i] # currentHostname
    THEN CHOOSE i \in from..Len(hosts) :
           hosts[i] # currentHostname
           /\ \A j \in (i + 1)..Len(hosts) : hosts[j] = currentHostname
    ELSE 0

\* the next candidate host at or after index `from` that is not the
\* current hostname; 0 when there is none
NextHost(hosts, from, currentHostname) ==
  IF \E i \in from..Len(hosts) : hosts[i] # currentHostname
    THEN CHOOSE i \in from..Len(hosts) :
           hosts[i] # currentHostname
           /\ \A j \in from..(i - 1) : hosts[j] = currentHostname
    ELSE 0

\* for (const host of candidateHosts): open the next host's tab over
\* HTTPS, or leave the loop and read the settings
HarvestFrom(op, from) ==
  LET i == NextHost(op.hosts, from, UrlHostname(op.tabUrl))
  IN IF i = 0
       THEN [op EXCEPT !.hi = Len(op.hosts) + 1, !.pc = "get.apiBase"]
       ELSE [op EXCEPT !.hi = i, !.scheme = "https", !.etab = NoTabId,
                       !.pending = Null, !.pc = "rl.create"]

\* (variation: a failed read of the page's storage counts as an empty one)
B_ReadOwn_Caught(o) ==
  /\ At(o, "backup", "ls.read")
  /\ LET op == ops[o]
         currentOrigin == UrlOrigin(op.tabUrl)
         hosts == collectCandidateHosts(op.cookies, UrlHostname(op.tabUrl))
     IN \E data \in {PageData(currentOrigin), EmptyObject} :
          ops' = [ops EXCEPT ![o] =
            HarvestFrom([op EXCEPT !.localStorageMap = <<Entry(currentOrigin, data)>>,
                                   !.hosts = hosts,
                                   !.stores = "", !.queries = <<>>], 1)]
  /\ UNCHANGED <<popup, call, variant, settings, activeTab, jar, lanes, openTabs, remote>>

\* const localStorageData = await readLocalStorage(tab.id): the page's
\* data, or {} when the script returns no result, or an injection error
B_ReadOwn(o) ==
  /\ At(o, "backup", "ls.read")
  /\ \E ok \in BOOLEAN :
       LET op == ops[o]
           currentOrigin == UrlOrigin(op.tabUrl)
           data == PageData(currentOrigin)
           hosts == collectCandidateHosts(op.cookies, UrlHostname(op.tabUrl))
       IN ops' = [ops EXCEPT ![o] =
            IF ~ok THEN Throw(op, "ApiError")
            ELSE HarvestFrom([op EXCEPT !.localStorageMap = <<Entry(currentOrigin, data)>>,
                                        !.hosts = hosts,
                                        !.stores = "", !.queries = <<>>], 1)]
  /\ UNCHANGED <<popup, call, variant, settings, activeTab, jar, lanes, openTabs, remote>>

----------------------------------------------------------------------------
(* readLocalStorageForUrl, as runBackup's harvesting loop calls it *)

\* what the loop does with the outcome of readLocalStorageForUrl: a result
\* is stored under its origin unless the origin has an entry; a failure
\* over HTTPS is retried over HTTP; a failure over HTTP gives the host up
\* (variation: no try/catch around the HTTP fallback, so its failure
\* rejects runBackup)
AfterRead_Uncaught(op, outcome) ==
  LET logged == [op EXCEPT !.etab = NoTabId, !.pending = Null,
                   !.harvest = Append(@, [host |-> op.hosts[op.hi], scheme |-> op.scheme,
                                          kind |-> outcome.kind,
                                          origin |-> outcome.origin, data |-> outcome.data])]
  IN IF outcome.ok
       THEN HarvestFrom(
              IF outcome.origin # EmptyStr /\ ~HasKey(op.localStorageMap, outcome.origin)
                THEN [logged EXCEPT !.localStorageMap = Append(@, Entry(outcome.origin, outcome.data))]
                ELSE logged,
              op.hi + 1)
     ELSE IF op.scheme = "https"
       THEN [logged EXCEPT !.scheme = "http", !.pc = "rl.create"]
     ELSE Throw(logged, outcome.kind)

\* (variation: a result is stored under its origin whether or not the
\* origin has an entry)
AfterRead_Overwrite(op, outcome) ==
  LET logged == [op EXCEPT !.etab = NoTabId, !.pending = Null,
                   !.harvest = Append(@, [host |-> op.hosts[op.hi], scheme |-> op.scheme,
                                          kind |-> outcome.kind,
                                          origin |-> outcome.origin, data |-> outcome.data])]
      put == IF HasKey(op.localStorageMap, outcome.origin)
               THEN [i \in 1..Len(op.localStorageMap) |->
                       IF op.localStorageMap[i] = Entry(outcome.origin,
                                                        Lookup(op.localStorageMap, outcome.origin))
                         THEN Entry(outcome.origin, outcome.data)
                         ELSE op.localStorageMap[i]]
               ELSE Append(op.localStorageMap, Entry(outcome.origin, outcome.data))
  IN IF outcome.ok
       THEN HarvestFrom(
              IF outcome.origin # EmptyStr
                THEN [logged EXCEPT !.localStorageMap = put]
                ELSE logged,
              op.hi + 1)
     ELSE IF op.scheme = "https"
       THEN [logged EXCEPT !.scheme = "http", !.pc = "rl.create"]
     ELSE HarvestFrom(logged, op.hi + 1)

\* (variation: no retry over HTTP)
AfterRead_NoFallback(op, outcome) ==
  LET logged == [op EXCEPT !.etab = NoTabId, !.pending = Null,
                   !.harvest = Append(@, [host |-> op.hosts[op.hi], scheme |-> op.scheme,
                                          kind |-> outcome.kind,
                                          origin |-> outcome.origin, data |-> outcome.data])]
  IN HarvestFrom(
       IF outcome.ok /\ outcome.origin # EmptyStr /\ ~HasKey(op.localStorageMap, outcome.origin)
         THEN [logged EXCEPT !.localStorageMap = Append(@, Entry(outcome.origin, outcome.data))]
         ELSE logged,
       op.hi + 1)

AfterRead(op, outcome) ==
  LET host == op.hosts[op.hi]
      logged == [op EXCEPT !.etab = NoTabId, !.pending = Null,
                   !.harvest = Append(@, [host |-> host, scheme |-> op.scheme,
                                          kind |-> outcome.kind,
                                          origin |-> outcome.origin, data |-> outcome.data])]
  IN IF outcome.ok
       THEN HarvestFrom(
              IF outcome.origin # EmptyStr /\ ~HasKey(op.localStorageMap, outcome.origin)
                THEN [logged EXCEPT !.localStorageMap = Append(@, Entry(outcome.origin, outcome.data))]
                ELSE logged,
              op.hi + 1)
     ELSE IF op.scheme = "https"
       THEN [logged EXCEPT !.scheme = "http", !.pc = "rl.create"]
     ELSE HarvestFrom(logged, op.hi + 1)

Failed(kind) == [ok |-> FALSE, kind |-> kind, origin |-> EmptyStr, data |-> EmptyObject]
Returned(origin, data) == [ok |-> TRUE, kind |-> "none", origin |-> origin, data |-> data]

HarvestUrl(op) ==
  IF op.scheme = "https" THEN HttpsUrl(op.hosts[op.hi]) ELSE HttpUrl(op.hosts[op.hi])

\* tab = await chromePromise(chrome.tabs.create, {url, active: false})
RL_Create(o) ==
  /\ At(o, "backup", "rl.create")
  /\ \E ok \in BOOLEAN :
       LET op == ops[o]
           id == <<o, op.created + 1>>
       IN IF ok
            THEN /\ ops' = [ops EXCEPT ![o] = [op EXCEPT !.etab = id,
                                                 !.created = op.created + 1,
                                                 !.pc = "rl.wait"]]
                 /\ openTabs' = openTabs \cup {[id |-> id, url |-> HarvestUrl(op)]}
            ELSE /\ ops' = [ops EXCEPT ![o] = AfterRead(op, Failed("ApiError"))]
                 /\ UNCHANGED openTabs
  /\ UNCHANGED <<popup, call, variant, settings, activeTab, jar, lanes, remote>>

\* the finally block: the tab is set, so chrome.tabs.remove is awaited
\* with the try block's outcome pending
\* (variation: a close that follows the try block instead of a finally, so
\* a throw skips it)
ThenRemove_OnReturnOnly(op, outcome) ==
  IF outcome.ok THEN [op EXCEPT !.pending = outcome, !.pc = "rl.remove"]
  ELSE AfterRead(op, outcome)

ThenRemove(op, outcome) == [op EXCEPT !.pending = outcome, !.pc = "rl.remove"]

\* (variation: waitForTabLoad without its timer: it settles only on a
\* load that completes)
RL_Wait_NoTimer(o) ==
  /\ At(o, "backup", "rl.wait")
  /\ LET op == ops[o]
     IN /\ IsOpen(op.etab)
        /\ \E final \in FinalUrls(HarvestUrl(op)) :
             openTabs' = (openTabs \ {[id |-> op.etab, url |-> TabUrlOf(op.etab)]})
                           \cup {[id |-> op.etab, url |-> final]}
        /\ ops' = [ops EXCEPT ![o] = [op EXCEPT !.pc = "rl.get"]]
  /\ UNCHANGED <<popup, call, variant, settings, activeTab, jar, lanes, remote>>

\* await waitForTabLoad(tab.id): the load completes somewhere, or the
\* 12 s timer fires
RL_Wait(o) ==
  /\ At(o, "backup", "rl.wait")
  /\ LET op == ops[o]
     IN \/ /\ IsOpen(op.etab)
           /\ \E final \in FinalUrls(HarvestUrl(op)) :
                openTabs' = (openTabs \ {[id |-> op.etab, url |-> TabUrlOf(op.etab)]})
                              \cup {[id |-> op.etab, url |-> final]}
           /\ ops' = [ops EXCEPT ![o] = [op EXCEPT !.pc = "rl.get"]]
        \/ /\ ops' = [ops EXCEPT ![o] = ThenRemove(op, Failed("TabLoadTimeout"))]
           /\ UNCHANGED openTabs
  /\ UNCHANGED <<popup, call, variant, settings, activeTab, jar, lanes, remote>>

\* const currentTab = await chromePromise(chrome.tabs.get, tab.id) and the
\* restricted-page check
RL_Get(o) ==
  /\ At(o, "backup", "rl.get")
  /\ LET op == ops[o]
     IN ops' = [ops EXCEPT ![o] =
          IF ~IsOpen(op.etab) THEN ThenRemove(op, Failed("ApiError"))
          ELSE IF TabUrlOf(op.etab) = EmptyStr \/ isRestrictedUrl(TabUrlOf(op.etab))
            THEN ThenRemove(op, Failed("UnsupportedPage"))
          ELSE [op EXCEPT !.currentTabUrl = TabUrlOf(op.etab), !.pc = "rl.exec"]]
  /\ UNCHANGED <<popup, call, variant, settings, activeTab, jar, lanes, openTabs, remote>>

\* const data = await readLocalStorage(tab.id); return {origin, data}
RL_Exec(o) ==
  /\ At(o, "backup", "rl.exec")
  /\ \E ok \in BOOLEAN, data \in {PageData(UrlOrigin(ops[o].currentTabUrl)),
                                   PageDataLater(UrlOrigin(ops[o].currentTabUrl))} :
       LET op == ops[o]
           origin == UrlOrigin(op.currentTabUrl)
       IN ops' = [ops EXCEPT ![o] =
            IF ok /\ IsOpen(op.etab)
              THEN ThenRemove(op, Returned(origin, data))
              ELSE ThenRemove(op, Failed("ApiError"))]
  /\ UNCHANGED <<popup, call, variant, settings, activeTab, jar, lanes, openTabs, remote>>

\* finally { await chromePromise(chrome.tabs.remove, tab.id) }: the tab
\* closes; the call reports an error only for a tab that is gone already,
\* and that error replaces the pending outcome
RL_Remove(o) ==
  /\ At(o, "backup", "rl.remove")
  /\ LET op == ops[o]
     IN /\ openTabs' = {t \in openTabs : t.id # op.etab}
        /\ ops' = [ops EXCEPT ![o] =
             AfterRead(op, IF IsOpen(op.etab) THEN op.pending ELSE Failed("ApiError"))]
  /\ UNCHANGED <<popup, call, variant, settings, activeTab, jar, lanes, remote>>

\* the user closes a background tab, or it crashes
TabCloses(id) ==
  /\ IsOpen(id)
  /\ openTabs' = {t \in openTabs : t.id # id}
  /\ UNCHANGED <<popup, call, variant, settings, activeTab, jar, ops, lanes, remote>>

----------------------------------------------------------------------------
(* runBackup: the submission *)

E2E_PREFIX == <<"/e2e">>

NoHeader == <<>>

\* the POST of the scoped variant: to /e2e/backup with the envelope when a
\* password is set, to /backup with the plaintext otherwise
\* (variation: the envelope is added to the plaintext body)
ScopedBackupRequest_Both(op, apiPassword, salt, nonce) ==
  LET useE2E == apiPassword # ""
      payloadData == [cookies |-> op.cookies, local_storage |-> op.localStorageMap]
      identity == [user_id |-> op.userId, device |-> "", domain |-> op.rootDomain]
  IN [method |-> "POST",
      path |-> IF useE2E THEN E2E_PREFIX \o <<"/backup">> ELSE <<"/backup">>,
      headers |-> "Content-Type" :> "application/json",
      body |-> IF useE2E
                 THEN identity @@ payloadData
                        @@ encryptE2EPayload(payloadData, apiPassword, salt, nonce)
                 ELSE identity @@ payloadData]

ScopedBackupRequest(op, apiPassword, salt, nonce) ==
  LET useE2E == apiPassword # ""
      payloadData == [cookies |-> op.cookies, local_storage |-> op.localStorageMap]
      identity == [user_id |-> op.userId, device |-> "", domain |-> op.rootDomain]
  IN [method |-> "POST",
      path |-> IF useE2E THEN E2E_PREFIX \o <<"/backup">> ELSE <<"/backup">>,
      headers |-> "Content-Type" :> "application/json",
      body |-> IF useE2E
                 THEN identity @@ encryptE2EPayload(payloadData, apiPassword, salt, nonce)
                 ELSE identity @@ payloadData]

\* the POST of the plain variant: the password travels in a header
PlainBackupRequest(op, apiPassword) ==
  [method |-> "POST",
   path |-> <<"/backup">>,
   headers |-> IF apiPassword # ""
                 THEN ("Content-Type" :> "application/json") @@ ("X-USK-Password" :> apiPassword)
                 ELSE "Content-Type" :> "application/json",
   body |-> [domain |-> op.rootDomain, cookies |-> op.cookies,
             local_storage |-> op.localStorageMap]]

\* fetch(...) is called: the request is on its way
Send(op, request) == [op EXCEPT !.requests = Append(@, request), !.pc = "fetch"]

\* const apiBase = await getApiBase()
B_ApiBase(o) ==
  /\ At(o, "backup", "get.apiBase")
  /\ \E ok \in BOOLEAN :
       ops' = [ops EXCEPT ![o] =
         IF ok THEN [@ EXCEPT !.pc = "get.apiPassword"] ELSE Throw(@, "ApiError")]
  /\ UNCHANGED <<popup, call, variant, settings, activeTab, jar, lanes, openTabs, remote>>

\* const apiPassword = await getApiPassword(); then the request is built:
\* at once, or after the encryption in the scoped variant with a password
B_ApiPassword(o) ==
  /\ At(o, "backup", "get.apiPassword")
  /\ \E ok \in BOOLEAN :
       LET op == [ops[o] EXCEPT !.apiPassword = settings.apiPassword]
       IN ops' = [ops EXCEPT ![o] =
            IF ~ok THEN Throw(ops[o], "ApiError")
            ELSE IF variant = "plain" THEN Send(op, PlainBackupRequest(op, op.apiPassword))
            ELSE IF op.apiPassword # "" THEN [op EXCEPT !.pc = "encrypt"]
            ELSE Send(op, ScopedBackupRequest(op, op.apiPassword, "", ""))]
  /\ UNCHANGED <<popup, call, variant, settings, activeTab, jar, lanes, openTabs, remote>>

\* const encryptedPayload = await encryptE2EPayload(payloadData, apiPassword)
B_Encrypt(o) ==
  /\ At(o, "backup", "encrypt")
  /\ \E salt \in Salts, nonce \in Nonces :
       ops' = [ops EXCEPT ![o] =
                 Send(@, ScopedBackupRequest(@, @.apiPassword, salt, nonce))]
  /\ UNCHANGED <<popup, call, variant, settings, activeTab, jar, lanes, openTabs, remote>>

\* the remote store replaces the identity's record by the request's body
Stored(request) == [path |-> request.path, headers |-> request.headers, body |-> request.body]

NoRecord == <<>>

\* const response = await fetch(...): the store accepts the record, or
\* answers with a failure status, or the request fails in transport
B_Fetch(o) ==
  /\ At(o, "backup", "fetch")
  /\ LET op == ops[o]
         request == op.requests[Len(op.requests)]
     IN \/ /\ remote' = <<Stored(request)>>
           /\ ops' = [ops EXCEPT ![o] =
                [op EXCEPT !.pc = "done",
                           !.result = [domain |-> op.rootDomain, cookies |-> Len(op.cookies)]]]
        \/ /\ \E status \in {413, 500} :
                ops' = [ops EXCEPT ![o] =
                          [Throw(op, "BackupFailed") EXCEPT !.errStatus = status]]
           /\ UNCHANGED remote
        \/ /\ ops' = [ops EXCEPT ![o] = Throw(op, "NetworkFailure")]
           /\ UNCHANGED remote
  /\ UNCHANGED <<popup, call, variant, settings, activeTab, jar, lanes, openTabs>>

----------------------------------------------------------------------------
(* runRestore *)

\* (variation: the call names the URL only and never the domain)
buildCookieDetails_UrlOnly(cookie, storeId) ==
  LET hostname == StripLeadingDot(cookie.domain)
      url == <<IF cookie.secure THEN "https" ELSE "http", "://">> \o hostname
               \o (IF cookie.path = EmptyStr THEN <<"/">> ELSE cookie.path)
      details == [url |-> url, name |-> cookie.name, value |-> cookie.value,
                  path |-> cookie.path, secure |-> cookie.secure,
                  httpOnly |-> cookie.httpOnly]
  IN details @@ (IF storeId # Null THEN [storeId |-> storeId] ELSE <<>>)

buildCookieDetails(cookie, storeId) ==
  LET hostname == StripLeadingDot(cookie.domain)
      url == <<IF cookie.secure THEN "https" ELSE "http", "://">> \o hostname
               \o (IF cookie.path = EmptyStr THEN <<"/">> ELSE cookie.path)
      details == [url |-> url, name |-> cookie.name, value |-> cookie.value,
                  path |-> cookie.path, secure |-> cookie.secure,
                  httpOnly |-> cookie.httpOnly]
  IN details
       @@ (IF ~cookie.hostOnly THEN [domain |-> cookie.domain] ELSE <<>>)
       @@ (IF storeId # Null THEN [storeId |-> storeId] ELSE <<>>)

R_ActiveTab(o) ==
  /\ At(o, "restore", "tabs.query")
  /\ \E ok \in BOOLEAN :
       ops' = [ops EXCEPT ![o] =
         IF ~ok THEN Throw(@, "ApiError")
         ELSE IF TabError(activeTab) # "none" THEN Throw(@, TabError(activeTab))
         ELSE [@ EXCEPT !.tabUrl = activeTab.url,
                        !.rootDomain = getRootDomain(activeTab.url),
                        !.pc = IF variant = "scoped" THEN "get.userId" ELSE "get.apiBase"]]
  /\ UNCHANGED <<popup, call, variant, settings, activeTab, jar, lanes, openTabs, remote>>

\* (variation: a missing user id is not checked)
R_UserId_Anonymous(o) ==
  /\ At(o, "restore", "get.userId")
  /\ \E ok \in BOOLEAN :
       ops' = [ops EXCEPT ![o] =
         IF ~ok THEN Throw(@, "ApiError")
         ELSE [@ EXCEPT !.userId = settings.userId, !.pc = "get.apiBase"]]
  /\ UNCHANGED <<popup, call, variant, settings, activeTab, jar, lanes, openTabs, remote>>

R_UserId(o) ==
  /\ At(o, "restore", "get.userId")
  /\ \E ok \in BOOLEAN :
       ops' = [ops EXCEPT ![o] =
         IF ~ok THEN Throw(@, "ApiError")
         ELSE IF settings.userId = "" THEN Throw(@, "MissingIdentity")
         ELSE [@ EXCEPT !.userId = settings.userId, !.pc = "get.apiBase"]]
  /\ UNCHANGED <<popup, call, variant, settings, activeTab, jar, lanes, openTabs, remote>>

R_ApiBase(o) ==
  /\ At(o, "restore", "get.apiBase")
  /\ \E ok \in BOOLEAN :
       ops' = [ops EXCEPT ![o] =
         IF ok THEN [@ EXCEPT !.pc = "get.apiPassword"] ELSE Throw(@, "ApiError")]
  /\ UNCHANGED <<popup, call, variant, settings, activeTab, jar, lanes, openTabs, remote>>

\* (variation: the scoped variant sends the password along, as the plain
\* variant does)
ScopedRestoreRequest_Header(op, apiPassword) ==
  [method |-> "GET",
   path |-> (IF apiPassword # "" THEN E2E_PREFIX \o <<"/restore">> ELSE <<"/restore">>)
              \o <<"/">> \o op.rootDomain,
   headers |-> IF apiPassword # ""
                 THEN ("X-USK-User" :> op.userId) @@ ("X-USK-Password" :> apiPassword)
                 ELSE "X-USK-User" :> op.userId,
   body |-> <<>>]

\* the GET of the scoped variant: /e2e/restore/{domain} when a password is
\* set, /restore/{domain} otherwise, with the user id in a header
ScopedRestoreRequest(op, apiPassword) ==
  [method |-> "GET",
   path |-> (IF apiPassword # "" THEN E2E_PREFIX \o <<"/restore">> ELSE <<"/restore">>)
              \o <<"/">> \o op.rootDomain,
   headers |-> "X-USK-User" :> op.userId,
   body |-> <<>>]

\* the GET of the plain variant: the password travels in a header
PlainRestoreRequest(op, apiPassword) ==
  [method |-> "GET",
   path |-> <<"/restore", "/">> \o op.rootDomain,
   headers |-> IF apiPassword # "" THEN "X-USK-Password" :> apiPassword ELSE NoHeader,
   body |-> <<>>]

R_ApiPassword(o) ==
  /\ At(o, "restore", "get.apiPassword")
  /\ \E ok \in BOOLEAN :
       LET op == [ops[o] EXCEPT !.apiPassword = settings.apiPassword]
       IN ops' = [ops EXCEPT ![o] =
            IF ~ok THEN Throw(ops[o], "ApiError")
            ELSE IF variant = "plain" THEN Send(op, PlainRestoreRequest(op, op.apiPassword))
            ELSE Send(op, ScopedRestoreRequest(op, op.apiPassword))]
  /\ UNCHANGED <<popup, call, variant, settings, activeTab, jar, lanes, openTabs, remote>>

\* What the remote store may answer to a restore request.  A 200 carries
\* the stored record's content, as stored or damaged on the way; a 401
\* carries a detail; the body may fail to parse as JSON.
NotBase64 == <<"raw", "???">>

Damaged(envelope) ==
  {[envelope EXCEPT !.payload = bytesToBase64([envelope.payload[2] EXCEPT !.tag = "broken"])],
   [envelope EXCEPT !.salt = bytesToBase64("salt-x")],
   [envelope EXCEPT !.nonce = NotBase64]}

Content(body) ==
  IF "payload" \in DOMAIN body
    THEN [payload |-> body.payload, salt |-> body.salt, nonce |-> body.nonce]
    ELSE [cookies |-> body.cookies, local_storage |-> body.local_storage]

RestoreResponses ==
  {[status |-> 401, json |-> j, data |-> [detail |-> d]] :
      j \in BOOLEAN, d \in {"Password required", "Invalid password", "Unauthorized"}}
  \cup {[status |-> st, json |-> TRUE, data |-> [detail |-> "Not found"]] : st \in {404, 500}}
  \cup (IF remote = NoRecord THEN {}
        ELSE LET content == Content(remote[1].body)
             IN {[status |-> 200, json |-> j, data |-> content] : j \in BOOLEAN}
                \cup (IF "payload" \in DOMAIN content
                        THEN {[status |-> 200, json |-> TRUE, data |-> d] : d \in Damaged(content)}
                        ELSE {}))

\* (variation: the detail is read only on the /e2e path)
ReadsDetail_OnE2E(op, response) ==
  /\ response.status = 401
  /\ variant = "scoped" /\ op.apiPassword # ""

\* whether the handler reads the body of a 401 for its detail
ReadsDetail(op, response) ==
  /\ response.status = 401
  /\ variant = "scoped" => op.apiPassword = ""

\* const response = await fetch(...)
R_Fetch(o) ==
  /\ At(o, "restore", "fetch")
  /\ LET op == ops[o]
     IN \/ ops' = [ops EXCEPT ![o] = Throw(op, "NetworkFailure")]
        \/ \E response \in RestoreResponses :
             ops' = [ops EXCEPT ![o] =
               IF response.status = 200
                 THEN [op EXCEPT !.response = <<response>>, !.pc = "resp.json"]
               ELSE IF ReadsDetail(op, response)
                 THEN [op EXCEPT !.response = <<response>>, !.pc = "resp.detail"]
               ELSE [Throw(op, "RestoreFailed") EXCEPT !.response = <<response>>,
                                                        !.errStatus = response.status]]
  /\ UNCHANGED <<popup, call, variant, settings, activeTab, jar, lanes, openTabs, remote>>

\* const data = await response.json().catch(() => null) on a 401
R_Detail(o) ==
  /\ At(o, "restore", "resp.detail")
  /\ LET op == ops[o]
         response == op.response[1]
     IN ops' = [ops EXCEPT ![o] =
          IF response.json /\ response.data.detail = "Password required"
            THEN Throw(op, "PasswordRequired")
          ELSE IF response.json /\ response.data.detail = "Invalid password"
            THEN Throw(op, "InvalidPassword")
          ELSE [Throw(op, "RestoreFailed") EXCEPT !.errStatus = response.status]]
  /\ UNCHANGED <<popup, call, variant, settings, activeTab, jar, lanes, openTabs, remote>>

\* Array.isArray(x.cookies) ? x.cookies : [] and x.local_storage || {}
CookiesOf(x) == IF "cookies" \in DOMAIN x THEN x.cookies ELSE <<>>
StorageOf(x) == IF "local_storage" \in DOMAIN x THEN x.local_storage ELSE EmptyObject

\* const data = await response.json(): with a password the scoped variant
\* goes on to decrypt, otherwise the body is read as the plaintext record
R_Json(o) ==
  /\ At(o, "restore", "resp.json")
  /\ LET op == ops[o]
         response == op.response[1]
         useE2E == variant = "scoped" /\ op.apiPassword # ""
     IN ops' = [ops EXCEPT ![o] =
          IF ~response.json THEN Throw(op, "BadJson")
          ELSE IF useE2E
            THEN IF op.apiPassword = "" THEN Throw(op, "PasswordRequired")
                 ELSE [op EXCEPT !.pc = "decrypt"]
          ELSE [op EXCEPT !.cookies = CookiesOf(response.data),
                          !.localStorageMap = StorageOf(response.data),
                          !.pc = "stores"]]
  /\ UNCHANGED <<popup, call, variant, settings, activeTab, jar, lanes, openTabs, remote>>

\* decryptE2EPayload on the body's payload, salt and nonce; a body without
\* them gives atob something that is no base64 text
Field(data, name) == IF name \in DOMAIN data THEN data[name] ELSE NotBase64

\* (variation: a failed decryption is caught and the restore goes on with
\* nothing to replay)
R_Decrypt_GoesOn(o) ==
  /\ At(o, "restore", "decrypt")
  /\ LET op == ops[o]
         data == op.response[1].data
         decrypted == decryptE2EPayload(Field(data, "payload"), Field(data, "salt"),
                                        Field(data, "nonce"), op.apiPassword)
     IN ops' = [ops EXCEPT ![o] =
          IF ~decrypted.ok THEN [op EXCEPT !.pc = "stores"]
          ELSE [op EXCEPT !.cookies = CookiesOf(decrypted.value),
                          !.localStorageMap = StorageOf(decrypted.value),
                          !.pc = "stores"]]
  /\ UNCHANGED <<popup, call, variant, settings, activeTab, jar, lanes, openTabs, remote>>

\* try { decrypted = await decryptE2EPayload(...) } catch { throw invalid }
R_Decrypt(o) ==
  /\ At(o, "restore", "decrypt")
  /\ LET op == ops[o]
         data == op.response[1].data
         decrypted == decryptE2EPayload(Field(data, "payload"), Field(data, "salt"),
                                        Field(data, "nonce"), op.apiPassword)
     IN ops' = [ops EXCEPT ![o] =
          IF ~decrypted.ok THEN Throw(op, "InvalidPassword")
          ELSE [op EXCEPT !.cookies = CookiesOf(decrypted.value),
                          !.localStorageMap = StorageOf(decrypted.value),
                          !.pc = "stores"]]
  /\ UNCHANGED <<popup, call, variant, settings, activeTab, jar, lanes, openTabs, remote>>

RECURSIVE MapSeq(_, _)
MapSeq(cookies, storeId) ==
  IF cookies = <<>> THEN <<>>
  ELSE <<buildCookieDetails(Head(cookies), storeId)>> \o MapSeq(Tail(cookies), storeId)

\* const storeId = await getCookieStoreIdForTab(tab.id); then every
\* chrome.cookies.set call of the Promise.all is made
R_Stores(o) ==
  /\ At(o, "restore", "stores")
  /\ \E storeId \in {"0", Null} :
       ops' = [ops EXCEPT ![o] =
                 [@ EXCEPT !.storeId = storeId,
                           !.setCalls = MapSeq(ops[o].cookies, storeId),
                           !.pc = "cookies.set"]]
  /\ UNCHANGED <<popup, call, variant, settings, activeTab, jar, lanes, openTabs, remote>>

\* the injected write routine ran in a page at `origin`:
\* localStorage.clear(), then setItem for every entry of the data
Applied(op, origin, data) ==
  [op EXCEPT !.applied = Append(@, [origin |-> origin, data |-> data])]

\* (variation: the active tab is reloaded as soon as the active origin is
\* written, before the other origins' tabs are opened)
WriteFrom_ReloadFirst(op, from) ==
  LET i == NextHost(op.hosts, from, UrlOrigin(op.tabUrl))
  IN IF i = 0
       THEN [op EXCEPT !.hi = Len(op.hosts) + 1, !.reloads = 1, !.pc = "tabs.reload"]
       ELSE [op EXCEPT !.hi = i, !.etab = NoTabId, !.pending = Null, !.reloads = 1,
                       !.pc = "wl.create"]

\* for (const origin of otherOrigins): open the next origin's tab, or
\* leave the loop and reload the active tab
WriteFrom(op, from) ==
  LET i == NextHost(op.hosts, from, UrlOrigin(op.tabUrl))
  IN IF i = 0
       THEN [op EXCEPT !.hi = Len(op.hosts) + 1, !.reloads = @ + 1, !.pc = "tabs.reload"]
       ELSE [op EXCEPT !.hi = i, !.etab = NoTabId, !.pending = Null, !.pc = "wl.create"]

\* await Promise.all(...): a failed cookies.set fails the restore (with no
\* cookie there is no call that could fail); then the
\* current origin's entry, if any, is written into the active tab
R_CookiesSet(o) ==
  /\ At(o, "restore", "cookies.set")
  /\ \E ok \in (IF ops[o].setCalls = <<>> THEN {TRUE} ELSE BOOLEAN) :
       LET op == ops[o]
           currentOrigin == UrlOrigin(op.tabUrl)
           origins == [op EXCEPT !.hosts = Keys(op.localStorageMap)]
       IN ops' = [ops EXCEPT ![o] =
            IF ~ok THEN Throw(op, "ApiError")
            ELSE IF HasKey(op.localStorageMap, currentOrigin)
              THEN [origins EXCEPT
                      !.writes = Append(@, [tab |-> ActiveTabId,
                                            data |-> Lookup(op.localStorageMap, currentOrigin)]),
                      !.pc = "ls.write"]
            ELSE WriteFrom(origins, 1)]
  /\ UNCHANGED <<popup, call, variant, settings, activeTab, jar, lanes, openTabs, remote>>

\* (variation: a failed write of the active origin is ignored like the
\* failures of the other origins)
R_WriteOwn_Caught(o) ==
  /\ At(o, "restore", "ls.write")
  /\ \E ok \in BOOLEAN :
       LET op == ops[o]
           currentOrigin == UrlOrigin(op.tabUrl)
           written == Applied(op, currentOrigin, Lookup(op.localStorageMap, currentOrigin))
       IN ops' = [ops EXCEPT ![o] =
            IF ok THEN WriteFrom(written, 1) ELSE WriteFrom(op, 1)]
  /\ UNCHANGED <<popup, call, variant, settings, activeTab, jar, lanes, openTabs, remote>>

\* await writeLocalStorage(tab.id, localStorageMap[currentOrigin])
R_WriteOwn(o) ==
  /\ At(o, "restore", "ls.write")
  /\ \E ok \in BOOLEAN :
       LET op == ops[o]
           currentOrigin == UrlOrigin(op.tabUrl)
           written == Applied(op, currentOrigin, Lookup(op.localStorageMap, currentOrigin))
       IN ops' = [ops EXCEPT ![o] =
            IF ok THEN WriteFrom(written, 1) ELSE Throw(op, "ApiError")]
  /\ UNCHANGED <<popup, call, variant, settings, activeTab, jar, lanes, openTabs, remote>>

\* await chromePromise(chrome.tabs.reload, tab.id)
R_Reload(o) ==
  /\ At(o, "restore", "tabs.reload")
  /\ \E ok \in BOOLEAN :
       ops' = [ops EXCEPT ![o] =
         IF ok THEN [@ EXCEPT !.pc = "done",
                              !.result = [domain |-> ops[o].rootDomain,
                                          cookies |-> Len(ops[o].cookies)]]
         ELSE Throw(@, "ApiError")]
  /\ UNCHANGED <<popup, call, variant, settings, activeTab, jar, lanes, openTabs, remote>>

----------------------------------------------------------------------------
(* writeLocalStorageForUrl, as runRestore's loop over the other origins   *)
(* calls it *)

\* (variation: no try/catch around writeLocalStorageForUrl, so its failure
\* rejects runRestore)
AfterWrite_Uncaught(op, outcome) ==
  LET logged == [op EXCEPT !.etab = NoTabId, !.pending = Null,
                   !.harvest = Append(@, [host |-> op.hosts[op.hi], scheme |-> "origin",
                                          kind |-> outcome.kind,
                                          origin |-> outcome.origin, data |-> outcome.data])]
  IN IF outcome.ok THEN WriteFrom(logged, op.hi + 1) ELSE Throw(logged, outcome.kind)

\* try { await writeLocalStorageForUrl(...) } catch { }: on to the next
AfterWrite(op, outcome) ==
  WriteFrom([op EXCEPT !.etab = NoTabId, !.pending = Null,
               !.harvest = Append(@, [host |-> op.hosts[op.hi], scheme |-> "origin",
                                      kind |-> outcome.kind,
                                          origin |-> outcome.origin, data |-> outcome.data])],
            op.hi + 1)

WL_Create(o) ==
  /\ At(o, "restore", "wl.create")
  /\ \E ok \in BOOLEAN :
       LET op == ops[o]
           id == <<o, op.created + 1>>
       IN IF ok
            THEN /\ ops' = [ops EXCEPT ![o] = [op EXCEPT !.etab = id,
                                                 !.created = op.created + 1,
                                                 !.pc = "wl.wait"]]
                 /\ openTabs' = openTabs \cup {[id |-> id, url |-> op.hosts[op.hi]]}
            ELSE /\ ops' = [ops EXCEPT ![o] = AfterWrite(op, Failed("ApiError"))]
                 /\ UNCHANGED openTabs
  /\ UNCHANGED <<popup, call, variant, settings, activeTab, jar, lanes, remote>>

ThenClose(op, outcome) == [op EXCEPT !.pending = outcome, !.pc = "wl.remove"]

WL_Wait(o) ==
  /\ At(o, "restore", "wl.wait")
  /\ LET op == ops[o]
     IN \/ /\ IsOpen(op.etab)
           /\ \E final \in FinalUrls(op.hosts[op.hi]) :
                openTabs' = (openTabs \ {[id |-> op.etab, url |-> TabUrlOf(op.etab)]})
                              \cup {[id |-> op.etab, url |-> final]}
           /\ ops' = [ops EXCEPT ![o] = [op EXCEPT !.pc = "wl.get"]]
        \/ /\ ops' = [ops EXCEPT ![o] = ThenClose(op, Failed("TabLoadTimeout"))]
           /\ UNCHANGED openTabs
  /\ UNCHANGED <<popup, call, variant, settings, activeTab, jar, lanes, remote>>

\* tabs.get and the restricted-page check; then writeLocalStorage is called
WL_Get(o) ==
  /\ At(o, "restore", "wl.get")
  /\ LET op == ops[o]
     IN ops' = [ops EXCEPT ![o] =
          IF ~IsOpen(op.etab) THEN ThenClose(op, Failed("ApiError"))
          ELSE IF TabUrlOf(op.etab) = EmptyStr \/ isRestrictedUrl(TabUrlOf(op.etab))
            THEN ThenClose(op, Failed("UnsupportedPage"))
          ELSE [op EXCEPT !.currentTabUrl = TabUrlOf(op.etab),
                          !.writes = Append(@, [tab |-> op.etab,
                                                data |-> Lookup(op.localStorageMap,
                                                                op.hosts[op.hi])]),
                          !.pc = "wl.exec"]]
  /\ UNCHANGED <<popup, call, variant, settings, activeTab, jar, lanes, openTabs, remote>>

\* await writeLocalStorage(tab.id, payload)
WL_Exec(o) ==
  /\ At(o, "restore", "wl.exec")
  /\ \E ok \in BOOLEAN :
       LET op == ops[o]
           origin == UrlOrigin(op.currentTabUrl)
           written == Applied(op, origin, Lookup(op.localStorageMap, op.hosts[op.hi]))
       IN ops' = [ops EXCEPT ![o] =
            IF ok /\ IsOpen(op.etab)
              THEN ThenClose(written, Returned(origin, EmptyObject))
              ELSE ThenClose(op, Failed("ApiError"))]
  /\ UNCHANGED <<popup, call, variant, settings, activeTab, jar, lanes, openTabs, remote>>

\* finally { await chromePromise(chrome.tabs.remove, tab.id) }
WL_Remove(o) ==
  /\ At(o, "restore", "wl.remove")
  /\ LET op == ops[o]
     IN /\ openTabs' = {t \in openTabs : t.id # op.etab}
        /\ ops' = [ops EXCEPT ![o] =
             AfterWrite(op, IF IsOpen(op.etab) THEN op.pending ELSE Failed("ApiError"))]
  /\ UNCHANGED <<popup, call, variant, settings, activeTab, jar, lanes, remote>>

----------------------------------------------------------------------------
(* runDelete *)

\* the DELETE request: /e2e/backup/{domain} when the scoped variant has a
\* password, /backup/{domain} otherwise; the scoped variant names the user
DeleteRequest(op, apiPassword) ==
  [method |-> "DELETE",
   path |-> (IF variant = "scoped" /\ apiPassword # ""
               THEN E2E_PREFIX \o <<"/backup">> ELSE <<"/backup">>)
              \o <<"/">> \o op.rootDomain,
   headers |-> IF variant = "scoped" THEN "X-USK-User" :> op.userId ELSE NoHeader,
   body |-> <<>>]

D_ActiveTab(o) ==
  /\ At(o, "delete", "tabs.query")
  /\ \E ok \in BOOLEAN :
       ops' = [ops EXCEPT ![o] =
         IF ~ok THEN Throw(@, "ApiError")
         ELSE IF TabError(activeTab) # "none" THEN Throw(@, TabError(activeTab))
         ELSE [@ EXCEPT !.tabUrl = activeTab.url,
                        !.rootDomain = getRootDomain(activeTab.url),
                        !.pc = IF variant = "scoped" THEN "get.userId" ELSE "get.apiBase"]]
  /\ UNCHANGED <<popup, call, variant, settings, activeTab, jar, lanes, openTabs, remote>>

D_UserId(o) ==
  /\ At(o, "delete", "get.userId")
  /\ \E ok \in BOOLEAN :
       ops' = [ops EXCEPT ![o] =
         IF ~ok THEN Throw(@, "ApiError")
         ELSE IF settings.userId = "" THEN Throw(@, "MissingIdentity")
         ELSE [@ EXCEPT !.userId = settings.userId, !.pc = "get.apiBase"]]
  /\ UNCHANGED <<popup, call, variant, settings, activeTab, jar, lanes, openTabs, remote>>

D_ApiBase(o) ==
  /\ At(o, "delete", "get.apiBase")
  /\ \E ok \in BOOLEAN :
       ops' = [ops EXCEPT ![o] =
         IF ~ok THEN Throw(@, "ApiError")
         ELSE IF variant = "scoped" THEN [@ EXCEPT !.pc = "get.apiPassword"]
         ELSE Send(@, DeleteRequest(@, ""))]
  /\ UNCHANGED <<popup, call, variant, settings, activeTab, jar, lanes, openTabs, remote>>

D_ApiPassword(o) ==
  /\ At(o, "delete", "get.apiPassword")
  /\ \E ok \in BOOLEAN :
       LET op == [ops[o] EXCEPT !.apiPassword = settings.apiPassword]
       IN ops' = [ops EXCEPT ![o] =
            IF ok THEN Send(op, DeleteRequest(op, op.apiPassword))
            ELSE Throw(ops[o], "ApiError")]
  /\ UNCHANGED <<popup, call, variant, settings, activeTab, jar, lanes, openTabs, remote>>

\* What the remote store may answer to a DELETE.  A 2xx body is a JSON
\* object that says whether a record was there, a JSON object without that
\* field, the JSON value null, or no JSON at all.
DeleteResponses ==
  {[status |-> st, json |-> "object", data |-> [detail |-> "Not found"]] : st \in {404, 500}}
  \cup {[status |-> 200, json |-> "object", data |-> [deleted |-> remote # NoRecord]],
        [status |-> 200, json |-> "object", data |-> [detail |-> "ok"]],
        [status |-> 200, json |-> "null", data |-> [detail |-> "null"]],
        [status |-> 200, json |-> "none", data |-> [detail |-> "none"]]}

\* const response = await fetch(..., {method: "DELETE"}); a status outside
\* 2xx throws; a store that answers 2xx has dropped the record
D_Fetch(o) ==
  /\ At(o, "delete", "fetch")
  /\ LET op == ops[o]
     IN \/ /\ ops' = [ops EXCEPT ![o] = Throw(op, "NetworkFailure")]
           /\ UNCHANGED remote
        \/ \E response \in DeleteResponses :
             IF response.status = 200
               THEN /\ ops' = [ops EXCEPT ![o] =
                         [op EXCEPT !.response = <<response>>, !.pc = "resp.json"]]
                    /\ remote' = NoRecord
               ELSE /\ ops' = [ops EXCEPT ![o] =
                         [Throw(op, "DeleteFailed") EXCEPT !.response = <<response>>,
                                                           !.errStatus = response.status]]
                    /\ UNCHANGED remote
  /\ UNCHANGED <<popup, call, variant, settings, activeTab, jar, lanes, openTabs>>

\* Boolean(data.deleted) on a JSON object
Deleted(data) == IF "deleted" \in DOMAIN data THEN data.deleted ELSE FALSE

\* const data = await response.json().catch(() => ({})) and
\* return {domain, deleted: Boolean(data.deleted)}: a body that is not JSON
\* counts as {}, and reading a field of null throws
D_Json(o) ==
  /\ At(o, "delete", "resp.json")
  /\ LET op == ops[o]
         response == op.response[1]
         data == IF response.json = "none" THEN EmptyObject ELSE response.data
     IN ops' = [ops EXCEPT ![o] =
          IF response.json = "null" THEN Throw(op, "TypeError")
          ELSE [op EXCEPT !.pc = "done",
                          !.result = [domain |-> op.rootDomain, deleted |-> Deleted(data)]]]
  /\ UNCHANGED <<popup, call, variant, settings, activeTab, jar, lanes, openTabs, remote>>

----------------------------------------------------------------------------
(* runCheck *)

\* fetch(`${apiBase}/`): the probe of the backend
ProbeRequest == [method |-> "GET", path |-> <<"/">>, headers |-> NoHeader, body |-> <<>>]

\* (variation: the status request always goes to /status/{domain})
StatusRequest_NoPrefix(op, apiPassword) ==
  [method |-> "GET",
   path |-> <<"/status", "/">> \o op.rootDomain,
   headers |-> IF variant = "scoped" THEN "X-USK-User" :> op.userId ELSE NoHeader,
   body |-> <<>>]

\* the status request: /e2e/status/{domain} when the scoped variant has a
\* password, /status/{domain} otherwise; the scoped variant names the user
StatusRequest(op, apiPassword) ==
  [method |-> "GET",
   path |-> (IF variant = "scoped" /\ apiPassword # ""
               THEN E2E_PREFIX \o <<"/status">> ELSE <<"/status">>)
              \o <<"/">> \o op.rootDomain,
   headers |-> IF variant = "scoped" THEN "X-USK-User" :> op.userId ELSE NoHeader,
   body |-> <<>>]

\* the four fields of runCheck's result
CheckResult(op, backendOk, hasBackup, updatedAt) ==
  [backendOk |-> backendOk, domain |-> op.rootDomain,
   hasBackup |-> hasBackup, updatedAt |-> updatedAt]

\* the probe is sent: the first await of the try block
Probe(op) == [op EXCEPT !.requests = Append(@, ProbeRequest), !.pc = "probe"]

K_ActiveTab(o) ==
  /\ At(o, "check", "tabs.query")
  /\ \E ok \in BOOLEAN :
       ops' = [ops EXCEPT ![o] =
         IF ~ok THEN Throw(@, "ApiError")
         ELSE IF TabError(activeTab) # "none" THEN Throw(@, TabError(activeTab))
         ELSE [@ EXCEPT !.tabUrl = activeTab.url,
                        !.rootDomain = getRootDomain(activeTab.url),
                        !.pc = "get.apiBase"]]
  /\ UNCHANGED <<popup, call, variant, settings, activeTab, jar, lanes, openTabs, remote>>

K_ApiBase(o) ==
  /\ At(o, "check", "get.apiBase")
  /\ \E ok \in BOOLEAN :
       ops' = [ops EXCEPT ![o] =
         IF ~ok THEN Throw(@, "ApiError")
         ELSE IF variant = "scoped" THEN [@ EXCEPT !.pc = "get.userId"]
         ELSE Probe(@)]
  /\ UNCHANGED <<popup, call, variant, settings, activeTab, jar, lanes, openTabs, remote>>

K_UserId(o) ==
  /\ At(o, "check", "get.userId")
  /\ \E ok \in BOOLEAN :
       ops' = [ops EXCEPT ![o] =
         IF ~ok THEN Throw(@, "ApiError")
         ELSE IF settings.userId = "" THEN Throw(@, "MissingIdentity")
         ELSE [@ EXCEPT !.userId = settings.userId, !.pc = "get.apiPassword"]]
  /\ UNCHANGED <<popup, call, variant, settings, activeTab, jar, lanes, openTabs, remote>>

K_ApiPassword(o) ==
  /\ At(o, "check", "get.apiPassword")
  /\ \E ok \in BOOLEAN :
       ops' = [ops EXCEPT ![o] =
         IF ok THEN Probe([@ EXCEPT !.apiPassword = settings.apiPassword])
         ELSE Throw(@, "ApiError")]
  /\ UNCHANGED <<popup, call, variant, settings, activeTab, jar, lanes, openTabs, remote>>

\* what the probe may come to: a 2xx, another status, or a rejection
ProbeOutcomes == {"ok", "status", "throw"}

\* (variation: the backend counts as reachable whatever the probe said)
ProbeOk_Always(outcome) == TRUE

\* backendOk = response.ok, and false in the catch block
ProbeOk(outcome) == outcome = "ok"

\* try { backendOk = (await fetch(`${apiBase}/`)).ok } catch { backendOk =
\* false }: an unreachable backend ends the check, a reachable one is asked
\* for the domain's status
K_Probe(o) ==
  /\ At(o, "check", "probe")
  /\ \E outcome \in ProbeOutcomes :
       LET op == [ops[o] EXCEPT !.probe = outcome]
       IN ops' = [ops EXCEPT ![o] =
            IF ProbeOk(outcome)
              THEN Send(op, StatusRequest(op, op.apiPassword))
              ELSE [op EXCEPT !.pc = "done",
                              !.result = CheckResult(op, FALSE, FALSE, Null)]]
  /\ UNCHANGED <<popup, call, variant, settings, activeTab, jar, lanes, openTabs, remote>>

\* What the remote store may answer to a status request
StatusResponses ==
  {[status |-> st, json |-> "object", data |-> [detail |-> "Not found"]] : st \in {404, 500}}
  \cup {[status |-> 200, json |-> "object",
         data |-> [exists |-> remote # NoRecord,
                   updated_at |-> IF remote # NoRecord THEN "t1" ELSE Null]],
        [status |-> 200, json |-> "object", data |-> [detail |-> "ok"]],
        [status |-> 200, json |-> "null", data |-> [detail |-> "null"]],
        [status |-> 200, json |-> "none", data |-> [detail |-> "none"]]}

\* Boolean(data.exists) where the body was read as a JSON object
Exists(response) == "exists" \in DOMAIN response.data /\ response.data.exists

\* data.updated_at || null
UpdatedAt(response) ==
  IF "updated_at" \in DOMAIN response.data THEN response.data.updated_at ELSE Null

\* the status request inside try/catch: a rejection, a status outside 2xx,
\* a body that is not JSON and a null body all come to "no backup"
K_Status(o) ==
  /\ At(o, "check", "fetch")
  /\ LET op == ops[o]
     IN \/ ops' = [ops EXCEPT ![o] =
               [op EXCEPT !.pc = "done", !.result = CheckResult(op, TRUE, FALSE, Null)]]
        \/ \E response \in StatusResponses :
             ops' = [ops EXCEPT ![o] =
               [op EXCEPT !.response = <<response>>, !.pc = "done",
                  !.result =
                    IF response.status = 200 /\ response.json = "object"
                      THEN CheckResult(op, TRUE, Exists(response), UpdatedAt(response))
                      ELSE CheckResult(op, TRUE, FALSE, Null)]]
  /\ UNCHANGED <<popup, call, variant, settings, activeTab, jar, lanes, openTabs, remote>>

----------------------------------------------------------------------------
(* The options page *)

Passwords == {"", "pw1", "pw2"}
UserIds == {"", "user-1"}

\* saveSettings of the options page: the password, and in the scoped
\* variant the user id derived from the e-mail address
saveSettings(password, userId) ==
  /\ variant = "plain" => userId = settings.userId
  /\ settings' = [apiPassword |-> password, userId |-> userId]
  /\ UNCHANGED <<popup, call, variant, activeTab, jar, ops, lanes, openTabs, remote>>

----------------------------------------------------------------------------
(* The cookies of the browser *)

DotRoot == <<".">> \o RootHost

SessionCookie == Cookie(<<"sid">>, "s", DotRoot, <<"/">>, TRUE, FALSE, 120)
HostCookie == Cookie(<<"pref">>, "p", LoginHost, <<"/">>, FALSE, TRUE, 110)
BigCookie1 == Cookie(<<"big1">>, "b", DotRoot, <<"/">>, TRUE, FALSE, 3100)
BigCookie2 == Cookie(<<"big2">>, "b", DotRoot, <<"/">>, TRUE, FALSE, 3100)
ApiCookie == Cookie(<<"api">>, "a", ApiHost, <<"/">>, TRUE, TRUE, 100)
CdnCookie == Cookie(<<"cdn">>, "c", <<".">> \o CdnHost, <<"/">>, FALSE, FALSE, 100)

Jars ==
  {<<>>,
   <<SessionCookie, HostCookie>>,
   <<BigCookie1, BigCookie2>>}

JarThreeHosts == <<SessionCookie, ApiCookie, CdnCookie>>

----------------------------------------------------------------------------
(* The specification *)

NoCall == [fn |-> "none"]

\* the popup page is not open
NoPopup == [open |-> FALSE]

Init ==
  /\ variant \in {"scoped", "plain"}
  /\ settings \in [apiPassword : Passwords, userId : UserIds]
  /\ variant = "plain" => settings.userId = ""
  /\ activeTab \in ActiveTabs
  /\ jar \in Jars
  /\ ops = [o \in OpIds |-> IdleOp]
  /\ lanes = {1}
  /\ openTabs = {}
  /\ remote = NoRecord
  /\ popup = NoPopup
  /\ call = NoCall

Next ==
  \/ \E o \in OpIds, type \in MessageTypes : Receive(o, type)
  \/ \E o \in OpIds : Respond(o)
  \/ \E o \in OpIds : B_ActiveTab(o)
  \/ \E o \in OpIds : B_UserId(o)
  \/ \E o \in OpIds : B_Stores(o)
  \/ \E o \in OpIds : B_Query(o)
  \/ \E o \in OpIds : B_Fallback(o)
  \/ \E o \in OpIds : B_ReadOwn(o)
  \/ \E o \in OpIds : RL_Create(o)
  \/ \E o \in OpIds : RL_Wait(o)
  \/ \E o \in OpIds : RL_Get(o)
  \/ \E o \in OpIds : RL_Exec(o)
  \/ \E o \in OpIds : RL_Remove(o)
  \/ \E t \in openTabs : TabCloses(t.id)
  \/ \E o \in OpIds : B_ApiBase(o)
  \/ \E o \in OpIds : B_ApiPassword(o)
  \/ \E o \in OpIds : B_Encrypt(o)
  \/ \E o \in OpIds : B_Fetch(o)
  \/ \E o \in OpIds : R_ActiveTab(o)
  \/ \E o \in OpIds : R_UserId(o)
  \/ \E o \in OpIds : R_ApiBase(o)
  \/ \E o \in OpIds : R_ApiPassword(o)
  \/ \E o \in OpIds : R_Fetch(o)
  \/ \E o \in OpIds : R_Detail(o)
  \/ \E o \in OpIds : R_Json(o)
  \/ \E o \in OpIds : R_Decrypt(o)
  \/ \E o \in OpIds : R_Stores(o)
  \/ \E o \in OpIds : R_CookiesSet(o)
  \/ \E o \in OpIds : R_WriteOwn(o)
  \/ \E o \in OpIds : WL_Create(o)
  \/ \E o \in OpIds : WL_Wait(o)
  \/ \E o \in OpIds : WL_Get(o)
  \/ \E o \in OpIds : WL_Exec(o)
  \/ \E o \in OpIds : WL_Remove(o)
  \/ \E o \in OpIds : R_Reload(o)
  \/ \E o \in OpIds : D_ActiveTab(o)
  \/ \E o \in OpIds : D_UserId(o)
  \/ \E o \in OpIds : D_ApiBase(o)
  \/ \E o \in OpIds : D_ApiPassword(o)
  \/ \E o \in OpIds : D_Fetch(o)
  \/ \E o \in OpIds : D_Json(o)
  \/ \E o \in OpIds : K_ActiveTab(o)
  \/ \E o \in OpIds : K_ApiBase(o)
  \/ \E o \in OpIds : K_UserId(o)
  \/ \E o \in OpIds : K_ApiPassword(o)
  \/ \E o \in OpIds : K_Probe(o)
  \/ \E o \in OpIds : K_Status(o)
  \/ \E password \in Passwords, userId \in UserIds : saveSettings(password, userId)

Spec == Init /\ [][Next]_vars

\* The same program on a page whose cookies name three other hosts
InitThreeHosts ==
  /\ variant \in {"scoped", "plain"}
  /\ settings = [apiPassword |-> "pw1",
                 userId |-> IF variant = "plain" THEN "" ELSE "user-1"]
  /\ activeTab = [id |-> ActiveTabId, url |-> ActiveUrl]
  /\ jar = JarThreeHosts
  /\ ops = [o \in OpIds |-> IdleOp]
  /\ lanes = {1}
  /\ openTabs = {}
  /\ remote = NoRecord
  /\ popup = NoPopup
  /\ call = NoCall

\* One backup is requested and runs to its response
NextBackup ==
  \/ \E o \in OpIds : Receive(o, "backup")
  \/ \E o \in OpIds : B_ActiveTab(o)
  \/ \E o \in OpIds : B_UserId(o)
  \/ \E o \in OpIds : B_Stores(o)
  \/ \E o \in OpIds : B_Query(o)
  \/ \E o \in OpIds : B_Fallback(o)
  \/ \E o \in OpIds : B_ReadOwn(o)
  \/ \E o \in OpIds : RL_Create(o)
  \/ \E o \in OpIds : RL_Wait(o)
  \/ \E o \in OpIds : RL_Get(o)
  \/ \E o \in OpIds : RL_Exec(o)
  \/ \E o \in OpIds : RL_Remove(o)
  \/ \E t \in openTabs : TabCloses(t.id)
  \/ \E o \in OpIds : B_ApiBase(o)
  \/ \E o \in OpIds : B_ApiPassword(o)
  \/ \E o \in OpIds : B_Encrypt(o)
  \/ \E o \in OpIds : B_Fetch(o)

SpecThreeHosts == InitThreeHosts /\ [][NextBackup]_vars

\* The record such a backup stores when every host was read where it was
\* opened: the entry of the active tab's origin and one for each other host
ThreeHostsBackup ==
  [IdleOp EXCEPT
     !.type = "backup",
     !.tabUrl = ActiveUrl,
     !.rootDomain = getRootDomain(ActiveUrl),
     !.userId = settings.userId,
     !.apiPassword = settings.apiPassword,
     !.cookies = JarThreeHosts,
     !.localStorageMap =
        <<Entry(UrlOrigin(ActiveUrl), PageData(UrlOrigin(ActiveUrl))),
          Entry(HttpsUrl(RootHost), PageData(HttpsUrl(RootHost))),
          Entry(HttpsUrl(ApiHost), PageData(HttpsUrl(ApiHost))),
          Entry(HttpsUrl(CdnHost), PageData(HttpsUrl(CdnHost)))>>]

ThreeHostsRecord ==
  Stored(IF variant = "plain"
           THEN PlainBackupRequest(ThreeHostsBackup, settings.apiPassword)
           ELSE ScopedBackupRequest(ThreeHostsBackup, settings.apiPassword, "salt1", "nonce1"))

\* A restore of that record: three other origins to write
InitRestore ==
  /\ variant \in {"scoped", "plain"}
  /\ settings = [apiPassword |-> "pw1",
                 userId |-> IF variant = "plain" THEN "" ELSE "user-1"]
  /\ activeTab = [id |-> ActiveTabId, url |-> ActiveUrl]
  /\ jar = <<>>
  /\ ops = [o \in OpIds |-> IdleOp]
  /\ lanes = {1}
  /\ openTabs = {}
  /\ remote = <<ThreeHostsRecord>>
  /\ popup = NoPopup
  /\ call = NoCall

\* One restore is requested and runs to its response
NextRestore ==
  \/ \E o \in OpIds : Receive(o, "restore")
  \/ \E o \in OpIds : R_ActiveTab(o)
  \/ \E o \in OpIds : R_UserId(o)
  \/ \E o \in OpIds : R_ApiBase(o)
  \/ \E o \in OpIds : R_ApiPassword(o)
  \/ \E o \in OpIds : R_Fetch(o)
  \/ \E o \in OpIds : R_Detail(o)
  \/ \E o \in OpIds : R_Json(o)
  \/ \E o \in OpIds : R_Decrypt(o)
  \/ \E o \in OpIds : R_Stores(o)
  \/ \E o \in OpIds : R_CookiesSet(o)
  \/ \E o \in OpIds : R_WriteOwn(o)
  \/ \E o \in OpIds : WL_Create(o)
  \/ \E o \in OpIds : WL_Wait(o)
  \/ \E o \in OpIds : WL_Get(o)
  \/ \E o \in OpIds : WL_Exec(o)
  \/ \E o \in OpIds : WL_Remove(o)
  \/ \E t \in openTabs : TabCloses(t.id)
  \/ \E o \in OpIds : R_Reload(o)

\* every awaited call settles: a handler that can take a step takes one
SpecRestore == InitRestore /\ [][NextRestore]_vars /\ WF_vars(NextRestore)

----------------------------------------------------------------------------
(* mergeCookies on its own: two lists drawn from a pool of cookies *)

MaxListLen == 2

XCom == <<"x", ".", "com">>
YXCom == <<"y", ".">> \o XCom

CookieA == Cookie(<<"a">>, "1", XCom, <<"/">>, FALSE, TRUE, 10)
CookieA_Later == Cookie(<<"a">>, "2", XCom, <<"/">>, FALSE, TRUE, 10)
CookieA_Sub == Cookie(<<"a">>, "3", YXCom, <<"/">>, FALSE, TRUE, 10)
\* a cookie set as "value" alone has the empty name
CookieNameless == Cookie(EmptyStr, "4", XCom, <<"/">>, FALSE, TRUE, 10)
\* name a, path /|x.com|/
CookiePipePath ==
  Cookie(<<"a">>, "5", XCom, <<"/", "|">> \o XCom \o <<"|", "/">>, FALSE, TRUE, 10)
\* name a|x.com|/, path /
CookiePipeName ==
  Cookie(<<"a", "|">> \o XCom \o <<"|", "/">>, "6", XCom, <<"/">>, FALSE, TRUE, 10)

MergePool ==
  {CookieA, CookieA_Later, CookieA_Sub, CookieNameless, CookiePipePath, CookiePipeName}

CookieLists == UNION {[1..n -> MergePool] : n \in 0..MaxListLen}

InitMerge ==
  /\ variant = "scoped"
  /\ settings = [apiPassword |-> "", userId |-> ""]
  /\ activeTab = NoTab
  /\ jar = <<>>
  /\ ops = [o \in OpIds |-> IdleOp]
  /\ lanes = {}
  /\ openTabs = {}
  /\ remote = NoRecord
  /\ popup = NoPopup
  /\ \E L1, L2 \in CookieLists :
       call = [fn |-> "mergeCookies", args |-> <<L1, L2>>, returned |-> FALSE, value |-> <<>>]

\* mergeCookies(L1, L2) runs and returns
CallMergeCookies ==
  /\ call.fn = "mergeCookies" /\ ~call.returned
  /\ call' = [call EXCEPT !.returned = TRUE, !.value = mergeCookies(call.args)]
  /\ UNCHANGED <<popup, variant, settings, activeTab, jar, ops, lanes, openTabs, remote>>

NextMerge == CallMergeCookies

SpecMerge == InitMerge /\ [][NextMerge]_vars

----------------------------------------------------------------------------
(* getRootDomain and isRestrictedUrl on their own: URLs made of a scheme, a *)
(* hostname of one to MaxLabels labels and a path *)

MaxLabels == 4

Labels == {"login", "a", "example", "co", "uk", "com"}

Schemes == {"https", "http", "chrome", "chrome-extension", "edge"}

UrlPaths == {EmptyStr, <<"/x">>}

LabelSeqs(lo, hi) == UNION {[1..n -> Labels] : n \in lo..hi}

\* the hostname with the given labels: <<"a", "b">> is a.b
RECURSIVE Host(_)
Host(labels) ==
  IF Len(labels) = 0 THEN EmptyStr
  ELSE IF Len(labels) = 1 THEN <<labels[1]>>
  ELSE <<labels[1], ".">> \o Host(Tail(labels))

Url(scheme, labels, path) == <<scheme, "://">> \o Host(labels) \o path

InitUrl ==
  /\ variant = "scoped"
  /\ settings = [apiPassword |-> "", userId |-> ""]
  /\ activeTab = NoTab
  /\ jar = <<>>
  /\ ops = [o \in OpIds |-> IdleOp]
  /\ lanes = {}
  /\ openTabs = {}
  /\ remote = NoRecord
  /\ popup = NoPopup
  /\ \E scheme \in Schemes, labels \in LabelSeqs(1, MaxLabels), path \in UrlPaths :
       call = [fn |-> "none", args |-> <<Url(scheme, labels, path)>>, labels |-> labels,
               returned |-> FALSE, value |-> EmptyStr]

\* getRootDomain(url) runs and returns
CallGetRootDomain ==
  /\ call.fn = "none"
  /\ call' = [call EXCEPT !.fn = "getRootDomain", !.returned = TRUE,
                          !.value = getRootDomain(call.args[1])]
  /\ UNCHANGED <<popup, variant, settings, activeTab, jar, ops, lanes, openTabs, remote>>

\* isRestrictedUrl(url) runs and returns
CallIsRestrictedUrl ==
  /\ call.fn = "none"
  /\ call' = [call EXCEPT !.fn = "isRestrictedUrl", !.returned = TRUE,
                          !.value = <<isRestrictedUrl(call.args[1])>>]
  /\ UNCHANGED <<popup, variant, settings, activeTab, jar, ops, lanes, openTabs, remote>>

NextUrl == CallGetRootDomain \/ CallIsRestrictedUrl

SpecUrl == InitUrl /\ [][NextUrl]_vars

----------------------------------------------------------------------------
(* The popup page: its three buttons, the actions and status checks it has *)
(* sent to the background and not yet heard of.  The background is what   *)
(* answers: any answer, in any order.                                      *)

MaxInFlight == 2
MaxChecks == 3

Buttons == {"backup", "restore", "delete"}

\* the disabled attribute of the buttons as popup.html ships them
Markup == {"enabled", "disabled"}

\* setBusy(true)
AllDisabled == [b \in Buttons |-> TRUE]

\* setBusy(isBusy) with isBusy = true; with false it returns at once
setBusy(disabled) == AllDisabled

setControlsEnabled(backendOk, hasBackup) ==
  [b \in Buttons |-> IF b = "delete" THEN ~backendOk \/ ~hasBackup ELSE ~backendOk]

\* popup.html is parsed and the script has run to its last statement:
\* USK_I18N.apply() is pending
PopupOpened(markup) ==
  [open |-> TRUE, markup |-> markup,
   disabled |-> [b \in Buttons |-> markup = "disabled"],
   loaded |-> FALSE, actions |-> <<>>, checks |-> 0,
   status |-> "", backendStatus |-> "", backupStatus |-> ""]

InitPopup ==
  /\ variant = "scoped"
  /\ settings = [apiPassword |-> "", userId |-> ""]
  /\ activeTab = NoTab
  /\ jar = <<>>
  /\ ops = [o \in OpIds |-> IdleOp]
  /\ lanes = {}
  /\ openTabs = {}
  /\ remote = NoRecord
  /\ call = NoCall
  /\ \E markup \in Markup : popup = PopupOpened(markup)

\* USK_I18N.apply() settles either way and runCheck() sends its message
P_Load ==
  /\ popup.open /\ ~popup.loaded
  /\ popup' = [popup EXCEPT !.loaded = TRUE, !.checks = @ + 1]
  /\ UNCHANGED <<call, variant, settings, activeTab, jar, ops, lanes, openTabs, remote>>

\* a click on a button that is not disabled: handleAction(type) up to its
\* await sendMessage(type)
P_Click(type) ==
  /\ popup.open /\ ~popup.disabled[type]
  /\ Len(popup.actions) < MaxInFlight
  /\ popup' = [popup EXCEPT !.disabled = setBusy(@), !.status = "working",
                            !.actions = Append(@, type)]
  /\ UNCHANGED <<call, variant, settings, activeTab, jar, ops, lanes, openTabs, remote>>

\* setStatus of handleAction after its await
ActionStatus(type, outcome) ==
  IF outcome = "error" THEN "error"
  ELSE IF type = "delete" THEN (IF outcome = "ok" THEN "delete_done" ELSE "delete_missing")
  ELSE IF type = "backup" THEN "backup_done" ELSE "restore_done"

\* the background answers the i-th action in flight: handleAction goes on
\* through try or catch, then finally { setBusy(false); await runCheck() }
\* up to runCheck's await
P_ActionAnswered(i, outcome) ==
  /\ popup.open
  /\ i \in 1..Len(popup.actions)
  /\ popup.checks < MaxChecks
  /\ outcome = "missing" => popup.actions[i] = "delete"
  /\ popup' = [popup EXCEPT
       !.status = ActionStatus(popup.actions[i], outcome),
       !.actions = SubSeq(@, 1, i - 1) \o SubSeq(@, i + 1, Len(@)),
       !.checks = @ + 1]
  /\ UNCHANGED <<call, variant, settings, activeTab, jar, ops, lanes, openTabs, remote>>

\* the background answers a check: the rest of runCheck
P_CheckAnswered(outcome) ==
  /\ popup.open /\ popup.checks > 0
  /\ popup' = [popup EXCEPT
       !.checks = @ - 1,
       !.status = IF outcome = "error" THEN "error"
                  ELSE IF outcome = "down" THEN "backend_unreachable" ELSE "",
       !.backendStatus = IF outcome = "error" THEN "error"
                         ELSE IF outcome = "down" THEN "disconnected" ELSE "connected",
       !.backupStatus = IF outcome \in {"error", "down"} THEN "unavailable"
                        ELSE IF outcome = "backup" THEN "found" ELSE "not_found",
       !.disabled = IF outcome \in {"error", "down"} THEN setControlsEnabled(FALSE, FALSE)
                    ELSE setControlsEnabled(TRUE, outcome = "backup")]
  /\ UNCHANGED <<call, variant, settings, activeTab, jar, ops, lanes, openTabs, remote>>

NextPopup ==
  \/ P_Load
  \/ \E type \in Buttons : P_Click(type)
  \/ \E i \in 1..MaxInFlight, outcome \in {"ok", "missing", "error"} : P_ActionAnswered(i, outcome)
  \/ \E outcome \in {"error", "down", "nobackup", "backup"} : P_CheckAnswered(outcome)

SpecPopup == InitPopup /\ [][NextPopup]_vars

----------------------------------------------------------------------------
(* collectCandidateHosts on its own: lists of at most MaxDomains cookies  *)
(* as chrome.cookies.getAll returns them, and the hostname of a web page  *)

MaxDomains == 3

RootCookie == Cookie(<<"root">>, "r", RootHost, <<"/">>, TRUE, TRUE, 100)
\* cookie.domain is falsy
NoDomainCookie == Cookie(<<"nd">>, "n", EmptyStr, <<"/">>, FALSE, TRUE, 100)

HostPool == {SessionCookie, HostCookie, RootCookie, ApiCookie, CdnCookie, NoDomainCookie}

HostLists == UNION {[1..n -> HostPool] : n \in 0..MaxDomains}

InitHosts ==
  /\ variant = "scoped"
  /\ settings = [apiPassword |-> "", userId |-> ""]
  /\ activeTab = NoTab
  /\ jar = <<>>
  /\ ops = [o \in OpIds |-> IdleOp]
  /\ lanes = {}
  /\ openTabs = {}
  /\ remote = NoRecord
  /\ popup = NoPopup
  /\ \E cookies \in HostLists, currentHostname \in {LoginHost, RootHost} :
       call = [fn |-> "collectCandidateHosts", args |-> <<cookies, currentHostname>>,
               returned |-> FALSE, value |-> <<>>]

\* collectCandidateHosts(cookies, currentHostname) runs and returns
CallCollectCandidateHosts ==
  /\ call.fn = "collectCandidateHosts" /\ ~call.returned
  /\ call' = [call EXCEPT !.returned = TRUE,
                          !.value = collectCandidateHosts(call.args[1], call.args[2])]
  /\ UNCHANGED <<popup, variant, settings, activeTab, jar, ops, lanes, openTabs, remote>>

NextHosts == CallCollectCandidateHosts

SpecHosts == InitHosts /\ [][NextHosts]_vars

----------------------------------------------------------------------------
(* The cookie collection of a backup on its own, up to the read of the    *)
(* page's storage, over stores that also hold a cookie without name and   *)
(* cookies of another site, while the site goes on setting cookies        *)

\* document.cookie = "v": a cookie whose name is the empty string
NamelessCookie == Cookie(EmptyStr, "v", LoginHost, <<"/">>, FALSE, TRUE, 100)
OtherSiteCookie == Cookie(<<"o">>, "o", <<"other", ".", "org">>, <<"/">>, FALSE, TRUE, 100)

CollectJars ==
  {<<>>,
   <<SessionCookie, HostCookie>>,
   <<NamelessCookie>>,
   <<OtherSiteCookie>>,
   <<ApiCookie, OtherSiteCookie, SessionCookie>>}

InitCollect ==
  /\ variant \in {"scoped", "plain"}
  /\ settings = [apiPassword |-> "",
                 userId |-> IF variant = "plain" THEN "" ELSE "user-1"]
  /\ activeTab = [id |-> ActiveTabId, url |-> ActiveUrl]
  /\ jar \in CollectJars
  /\ ops = [o \in OpIds |-> IdleOp]
  /\ lanes = {1}
  /\ openTabs = {}
  /\ remote = NoRecord
  /\ popup = NoPopup
  /\ call = NoCall

\* a response or a script of the site sets one of its cookies again
CookieChanges ==
  /\ \E i \in 1..Len(jar) :
       /\ jar[i].value # "later"
       /\ jar' = [jar EXCEPT ![i].value = "later"]
  /\ UNCHANGED <<popup, call, variant, settings, activeTab, ops, lanes, openTabs, remote>>

NextCollect ==
  \/ \E o \in OpIds : Receive(o, "backup")
  \/ \E o \in OpIds : B_ActiveTab(o)
  \/ \E o \in OpIds : B_UserId(o)
  \/ \E o \in OpIds : B_Stores(o)
  \/ \E o \in OpIds : B_Query(o)
  \/ \E o \in OpIds : B_Fallback(o)
  \/ \E o \in OpIds : Respond(o)
  \/ CookieChanges

SpecCollect == InitCollect /\ [][NextCollect]_vars

----------------------------------------------------------------------------
(* waitForTabLoad(tabId) on its own: the promise, the timer, the          *)
(* onUpdated listener and the chrome.tabs.get call it starts, against the *)
(* events of the waited tab and of another tab                            *)

MaxUpdates == 3

WaitedTabId == <<1, 1>>
OtherTabId == <<1, 2>>

TabStatuses == {"loading", "complete"}

\* the call has run to its end: the timer is armed, the listener is added,
\* chrome.tabs.get is in flight and the promise is pending
waitForTabLoad(tabId, tabStatus) ==
  [fn |-> "waitForTabLoad", args |-> <<tabId>>,
   promise |-> "pending", error |-> "none",
   timeout |-> "armed", listeners |-> {"onUpdated"}, get |-> "pending",
   tabStatus |-> tabStatus, updates |-> 0,
   last |-> [kind |-> "call", id |-> tabId, status |-> tabStatus]]

InitWait ==
  /\ variant = "scoped"
  /\ settings = [apiPassword |-> "", userId |-> ""]
  /\ activeTab = NoTab
  /\ jar = <<>>
  /\ ops = [o \in OpIds |-> IdleOp]
  /\ lanes = {}
  /\ openTabs = {}
  /\ remote = NoRecord
  /\ popup = NoPopup
  /\ \E tabStatus \in TabStatuses : call = waitForTabLoad(WaitedTabId, tabStatus)

\* (variation: the listener stays)
cleanup_TimerOnly(c) ==
  [c EXCEPT !.timeout = IF @ = "armed" THEN "cleared" ELSE @]

\* clearTimeout(timeout); chrome.tabs.onUpdated.removeListener(onUpdated)
cleanup(c) ==
  [c EXCEPT !.timeout = IF @ = "armed" THEN "cleared" ELSE @,
            !.listeners = @ \ {"onUpdated"}]

\* resolve() and reject(error) of a promise: without effect once settled
resolve(c) == IF c.promise = "pending" THEN [c EXCEPT !.promise = "resolved"] ELSE c
reject(c, error) ==
  IF c.promise = "pending" THEN [c EXCEPT !.promise = "rejected", !.error = error] ELSE c

\* the setTimeout callback
W_Timeout ==
  /\ call.fn = "waitForTabLoad" /\ call.timeout = "armed"
  /\ call' = reject(cleanup([call EXCEPT !.timeout = "fired",
                                         !.last = [kind |-> "timeout", id |-> call.args[1],
                                                   status |-> call.tabStatus]]),
                    "TabLoadTimeout")
  /\ UNCHANGED <<popup, variant, settings, activeTab, jar, ops, lanes, openTabs, remote>>

\* chrome.tabs.onUpdated fires for some tab; onUpdated(id, info) runs if
\* it is still a listener
W_Updated(id, status) ==
  /\ call.fn = "waitForTabLoad" /\ call.updates < MaxUpdates
  /\ LET c == [call EXCEPT !.updates = @ + 1,
                           !.tabStatus = IF id = call.args[1] THEN status ELSE @,
                           !.last = [kind |-> "updated", id |-> id, status |-> status]]
     IN call' = IF "onUpdated" \in call.listeners /\ id = call.args[1] /\ status = "complete"
                  THEN resolve(cleanup(c))
                  ELSE c
  /\ UNCHANGED <<popup, variant, settings, activeTab, jar, ops, lanes, openTabs, remote>>

\* chromePromise(chrome.tabs.get, tabId) settles: .then checks the
\* status, .catch swallows the error
W_Get(ok) ==
  /\ call.fn = "waitForTabLoad" /\ call.get = "pending"
  /\ LET c == [call EXCEPT !.get = "done",
                           !.last = [kind |-> "get", id |-> call.args[1],
                                     status |-> IF ok THEN call.tabStatus ELSE "error"]]
     IN call' = IF ok /\ call.tabStatus = "complete" THEN resolve(cleanup(c)) ELSE c
  /\ UNCHANGED <<popup, variant, settings, activeTab, jar, ops, lanes, openTabs, remote>>

NextWait ==
  \/ W_Timeout
  \/ \E id \in {WaitedTabId, OtherTabId}, status \in TabStatuses : W_Updated(id, status)
  \/ \E ok \in BOOLEAN : W_Get(ok)

\* a timer that is armed fires
SpecWait == InitWait /\ [][NextWait]_vars /\ WF_vars(W_Timeout)

----------------------------------------------------------------------------
(* Two commands at once: a backup and a restore of the same user, each    *)
(* received while the other may be running, on a site without cookies (so *)
(* that neither opens tabs of its own)                                    *)

InitRace ==
  /\ variant = "scoped"
  /\ settings \in [apiPassword : {"", "pw1"}, userId : {"user-1"}]
  /\ activeTab = [id |-> ActiveTabId, url |-> ActiveUrl]
  /\ jar = <<>>
  /\ ops = [o \in OpIds |-> IdleOp]
  /\ lanes = {1, 2}
  /\ openTabs = {}
  /\ remote = NoRecord
  /\ popup = NoPopup
  /\ call = NoCall

\* what the handler of invocation o does next
HandlerStep(o) ==
  \/ B_ActiveTab(o)
  \/ B_UserId(o)
  \/ B_Stores(o)
  \/ B_Query(o)
  \/ B_Fallback(o)
  \/ B_ReadOwn(o)
  \/ B_ApiBase(o)
  \/ B_ApiPassword(o)
  \/ B_Encrypt(o)
  \/ B_Fetch(o)
  \/ R_ActiveTab(o)
  \/ R_UserId(o)
  \/ R_ApiBase(o)
  \/ R_ApiPassword(o)
  \/ R_Fetch(o)
  \/ R_Detail(o)
  \/ R_Json(o)
  \/ R_Decrypt(o)
  \/ R_Stores(o)
  \/ R_CookiesSet(o)
  \/ R_WriteOwn(o)
  \/ R_Reload(o)

NextRace ==
  \/ Receive(1, "backup")
  \/ Receive(2, "restore")
  \/ \E o \in OpIds : Respond(o)
  \/ \E o \in OpIds : HandlerStep(o)

SpecRace == InitRace /\ [][NextRace]_vars

----------------------------------------------------------------------------
(* Properties *)

ReadPcs == {"rl.create", "rl.wait", "rl.get", "rl.exec", "rl.remove"}
WritePcs == {"wl.create", "wl.wait", "wl.get", "wl.exec", "wl.remove"}
Finished(o) == ops[o].pc \in {"done", "failed"}
KindsLogged(o) == {ops[o].harvest[k].kind : k \in 1..Len(ops[o].harvest)}

\* C1: a background tab an operation opened is open only while the
\* readLocalStorageForUrl / writeLocalStorageForUrl call that created it is
\* still running; once the call has returned or thrown the tab is closed,
\* so a finished backup or restore has none of its tabs open.
C1_TabsClosed ==
  \A o \in OpIds : \A t \in openTabs :
    t.id[1] = o =>
      /\ ops[o].pc \in (ReadPcs \cup WritePcs) \ {"rl.create", "wl.create"}
      /\ ops[o].etab = t.id

\* an operation finished after one harvest call that timed out (and
\* threw) and one that returned, both in tabs of their own
C1_Witness ==
  \E o \in OpIds :
    /\ Finished(o)
    /\ ops[o].created >= 2
    /\ {"TabLoadTimeout", "none"} \subseteq KindsLogged(o)
    /\ openTabs = {}

\* C2: while a backup harvests the other hosts, no step fails it; an
\* attempt that failed leaves the storage snapshot as it was; after a
\* host's last attempt the loop goes on to the next candidate host, or to
\* the submission; and once the loop is over every candidate host other
\* than the active tab's was attempted.
OtherHosts(op) ==
  {i \in 1..Len(op.hosts) : op.hosts[i] # UrlHostname(op.tabUrl)}

C2_HarvestStep(o) ==
  LET op == ops[o]
      after == ops'[o]
      ended == Len(after.harvest) = Len(op.harvest) + 1
      last == after.harvest[Len(after.harvest)]
      later == {i \in OtherHosts(op) : i > op.hi}
  IN (op.type = "backup" /\ op.pc \in ReadPcs) =>
       /\ after.pc \in ReadPcs \cup {"get.apiBase"}
       /\ after.err = "none"
       /\ (ended /\ last.kind # "none") => after.localStorageMap = op.localStorageMap
       /\ (ended /\ (last.kind = "none" \/ last.scheme = "http")) =>
            IF later = {}
              THEN after.pc = "get.apiBase"
              ELSE /\ after.pc = "rl.create"
                   /\ after.scheme = "https"
                   /\ after.hi \in later
                   /\ \A i \in later : after.hi <= i

C2_AllAttempted ==
  \A o \in OpIds :
    (ops[o].type = "backup"
       /\ ops[o].pc \in {"get.apiBase", "get.apiPassword", "encrypt", "fetch", "done"}) =>
      \A i \in OtherHosts(ops[o]) :
        \E k \in 1..Len(ops[o].harvest) : ops[o].harvest[k].host = ops[o].hosts[i]

C2_FailureIsolated ==
  /\ []C2_AllAttempted
  /\ [][\A o \in OpIds : C2_HarvestStep(o)]_vars

\* three other hosts; the second timed out over HTTPS and over HTTP; the
\* snapshot holds the origins of the first and the third and not the
\* second's; the backup was stored
C2_Witness ==
  \E o \in OpIds :
    LET op == ops[o]
        others == OtherHosts(op)
        LogOf(i) == SelectSeq(op.harvest, LAMBDA e : e.host = op.hosts[i])
    IN /\ op.type = "backup" /\ op.pc = "done"
       /\ Cardinality(others) = 3
       /\ \E i, j, k \in others :
            /\ i < j /\ j < k
            /\ Len(LogOf(j)) = 2
            /\ LogOf(j)[1].scheme = "https" /\ LogOf(j)[1].kind = "TabLoadTimeout"
            /\ LogOf(j)[2].scheme = "http" /\ LogOf(j)[2].kind = "TabLoadTimeout"
            /\ HasKey(op.localStorageMap, UrlOrigin(HttpsUrl(op.hosts[i])))
            /\ HasKey(op.localStorageMap, UrlOrigin(HttpsUrl(op.hosts[k])))
            /\ ~HasKey(op.localStorageMap, UrlOrigin(HttpsUrl(op.hosts[j])))
            /\ ~HasKey(op.localStorageMap, UrlOrigin(HttpUrl(op.hosts[j])))
       /\ remote # NoRecord

\* C3: what mergeCookies(L1, L2) returns holds exactly one record for each
\* (name, domain, path) of L1 followed by L2, that record is the first one
\* with that key in that order, and it holds nothing else.
IdentityKey(cookie) == <<cookie.name, cookie.domain, cookie.path>>

FirstWith(list, key) ==
  list[CHOOSE i \in 1..Len(list) :
         /\ IdentityKey(list[i]) = key
         /\ \A j \in 1..(i - 1) : IdentityKey(list[j]) # key]

OnePerKey(input, output) ==
  /\ \A i \in 1..Len(input) :
       LET key == IdentityKey(input[i])
           found == {j \in 1..Len(output) : IdentityKey(output[j]) = key}
       IN /\ Cardinality(found) = 1
          /\ \A j \in found : output[j] = FirstWith(input, key)
  /\ \A j \in 1..Len(output) : \E i \in 1..Len(input) : output[j] = input[i]

C3_OnePerKey ==
  (call.fn = "mergeCookies" /\ call.returned) => OnePerKey(Flat(call.args), call.value)

\* C4: in the identity-scoped variant, a backup whose collected cookies
\* serialize to more than COOKIE_SIZE_LIMIT_BYTES has failed with the
\* size-exceeded error and has sent no request.
Oversized(o) ==
  /\ ops[o].type = "backup"
  /\ getCookiesSizeBytes(ops[o].cookies) > COOKIE_SIZE_LIMIT_BYTES

FailedTooLarge(o) ==
  /\ ops[o].pc = "failed"
  /\ ops[o].err = "PayloadTooLarge"
  /\ ops[o].requests = <<>>

C4_SizeGuardScoped ==
  \A o \in OpIds : (variant = "scoped" /\ Oversized(o)) => FailedTooLarge(o)

C4_Witness ==
  \E o \in OpIds : variant = "scoped" /\ Oversized(o) /\ FailedTooLarge(o)

\* C4 as stated, for every backup: the plain variant has no ceiling and
\* goes on with the oversized set
C4_SizeGuardAnyVariant ==
  \A o \in OpIds : Oversized(o) => FailedTooLarge(o)

\* C5: a restore that asked on the /restore path (no password configured
\* in the identity-scoped variant; always in the plain variant) and was
\* answered 401 {"detail": "Password required"} never goes on, and fails
\* with PasswordRequired.
AnsweredPasswordRequired(o) ==
  /\ ops[o].type = "restore"
  /\ Len(ops[o].response) = 1
  /\ ops[o].response[1].status = 401
  /\ ops[o].response[1].json
  /\ ops[o].response[1].data.detail = "Password required"

OnE2EPath(o) ==
  LET request == ops[o].requests[Len(ops[o].requests)]
  IN <<request.path[1]>> = E2E_PREFIX

SurfacesPasswordRequired(o) ==
  /\ ops[o].pc \in {"resp.detail", "failed"}
  /\ ops[o].pc = "failed" => ops[o].err = "PasswordRequired"

C5_PasswordRequiredOnPlainPath ==
  \A o \in OpIds :
    (AnsweredPasswordRequired(o) /\ ~OnE2EPath(o)) => SurfacesPasswordRequired(o)

C5_Witness ==
  \E o \in OpIds :
    /\ AnsweredPasswordRequired(o) /\ ~OnE2EPath(o)
    /\ ops[o].pc = "failed" /\ ops[o].err = "PasswordRequired"

\* C5 as stated, on either path: on the /e2e path the 401 becomes the
\* generic restore-failed error
C5_PasswordRequiredAnyPath ==
  \A o \in OpIds : AnsweredPasswordRequired(o) => SurfacesPasswordRequired(o)

\* C6: a restore that fetched a record carrying an envelope (payload,
\* salt, nonce) with no password configured stops there and fails with
\* PasswordRequired; it does not go on to replay nothing and succeed.
FetchedRecord(o) ==
  /\ ops[o].type = "restore"
  /\ Len(ops[o].response) = 1
  /\ ops[o].response[1].status = 200
  /\ ops[o].response[1].json

CarriesEnvelope(o) ==
  {"payload", "salt", "nonce"} \subseteq DOMAIN ops[o].response[1].data

C6_EnvelopeNeedsPassword ==
  \A o \in OpIds :
    (FetchedRecord(o) /\ CarriesEnvelope(o) /\ ops[o].apiPassword = "") =>
      /\ ops[o].pc \in {"resp.json", "failed"}
      /\ ops[o].pc = "failed" => ops[o].err = "PasswordRequired"

\* C7: every chrome.cookies.set call of a restore is built from the cookie
\* at the same position: it has the domain attribute, equal to the
\* cookie's domain with its leading dot, exactly when the cookie is not
\* host-only; its URL is https iff the cookie is secure, followed by the
\* domain without the leading dot and the path.
DotStripped(domain) ==
  IF domain # EmptyStr /\ Head(domain) = "." THEN Tail(domain) ELSE domain

SetCallMatches(details, cookie) ==
  /\ cookie.hostOnly => "domain" \notin DOMAIN details
  /\ ~cookie.hostOnly => ("domain" \in DOMAIN details /\ details.domain = cookie.domain)
  /\ details.url[1] = "https" <=> cookie.secure
  /\ details.url[1] \in {"https", "http"}
  /\ details.url = <<details.url[1], "://">> \o DotStripped(cookie.domain) \o cookie.path

C7_SetCallDomain ==
  \A o \in OpIds :
    (ops[o].type = "restore" /\ ops[o].pc \in {"cookies.set", "ls.write", "tabs.reload", "done"}
       \cup WritePcs) =>
      /\ Len(ops[o].setCalls) = Len(ops[o].cookies)
      /\ \A i \in 1..Len(ops[o].cookies) :
           SetCallMatches(ops[o].setCalls[i], ops[o].cookies[i])

\* a restore replayed a cookie of a dotted domain and a host-only cookie
C7_Witness ==
  \E o \in OpIds :
    /\ ops[o].type = "restore" /\ ops[o].pc = "done"
    /\ \E i, j \in 1..Len(ops[o].setCalls) :
         /\ ~ops[o].cookies[i].hostOnly
         /\ ops[o].setCalls[i].domain = DotRoot
         /\ ops[o].setCalls[i].url = <<"https", "://">> \o RootHost \o <<"/">>
         /\ ops[o].cookies[j].hostOnly
         /\ "domain" \notin DOMAIN ops[o].setCalls[j]
         /\ ops[o].setCalls[j].url[1] = "http"

\* C8: in the identity-scoped variant a backup sends one request; with a
\* password it goes to /e2e/backup and its body has the identity fields,
\* payload, salt and nonce and no cookies or local_storage field; without
\* one it goes to /backup and carries the cookies and the storage snapshot.
IdentityFields == {"user_id", "device", "domain"}

RequestShape(o) ==
  LET op == ops[o]
      request == op.requests[1]
  IN /\ Len(op.requests) = 1
     /\ request.method = "POST"
     /\ IF op.apiPassword # ""
          THEN /\ request.path = <<"/e2e", "/backup">>
               /\ DOMAIN request.body = IdentityFields \cup {"payload", "salt", "nonce"}
          ELSE /\ request.path = <<"/backup">>
               /\ {"cookies", "local_storage"} \subseteq DOMAIN request.body
               /\ request.body.cookies = op.cookies
               /\ request.body.local_storage = op.localStorageMap

Submitted(o) == ops[o].type = "backup" /\ ops[o].requests # <<>>

C8_RequestShapeScoped ==
  \A o \in OpIds : (variant = "scoped" /\ Submitted(o)) => RequestShape(o)

C8_Witness ==
  \E o \in OpIds :
    /\ variant = "scoped" /\ Submitted(o) /\ ops[o].pc = "done"
    /\ ops[o].apiPassword # ""
    /\ ops[o].cookies # <<>>
    /\ ops[o].requests[1].path = <<"/e2e", "/backup">>
    /\ remote = <<Stored(ops[o].requests[1])>>

\* C8 as stated, for every backup: the plain variant sends the plaintext
\* to /backup with the password in a header
C8_RequestShapeAnyVariant ==
  \A o \in OpIds : Submitted(o) => RequestShape(o)

\* C9: when a restore decrypted an envelope that encryptE2EPayload made
\* from a payload P under a password W1, then with the same password it
\* goes on with the cookies and the storage of P, and with another
\* password it has failed with InvalidPassword.
Decrypted(o) ==
  /\ FetchedRecord(o)
  /\ OnE2EPath(o)
  /\ ops[o].pc \notin {"fetch", "resp.json", "decrypt"}

SealedIn(data) ==
  LET ciphertext == data.payload[2]
  IN [payload |-> ciphertext.plaintext[2], password |-> ciphertext.key.password,
      salt |-> ciphertext.key.salt, nonce |-> ciphertext.iv]

MadeByEncrypt(data) ==
  /\ "payload" \in DOMAIN data
  /\ LET in == SealedIn(data)
     IN data = encryptE2EPayload(in.payload, in.password, in.salt, in.nonce)

C9_RoundTrip ==
  \A o \in OpIds :
    (Decrypted(o) /\ MadeByEncrypt(ops[o].response[1].data)) =>
      LET in == SealedIn(ops[o].response[1].data)
      IN IF in.password = ops[o].apiPassword
           THEN /\ ops[o].err # "InvalidPassword"
                /\ ops[o].cookies = in.payload.cookies
                /\ ops[o].localStorageMap = in.payload.local_storage
           ELSE ops[o].pc = "failed" /\ ops[o].err = "InvalidPassword"

\* a record sealed under one password was fetched under another
C9_Witness ==
  \E o \in OpIds :
    /\ Decrypted(o) /\ MadeByEncrypt(ops[o].response[1].data)
    /\ SealedIn(ops[o].response[1].data).password = "pw1"
    /\ SealedIn(ops[o].response[1].data).payload.cookies # <<>>
    /\ ops[o].apiPassword = "pw2"
    /\ ops[o].err = "InvalidPassword"

\* C10: when decryptE2EPayload fails on what an encrypted restore fetched,
\* the restore has failed with InvalidPassword and has made no
\* chrome.cookies.set call and no storage write, opened no tab and not
\* reloaded the active tab.
DecryptionFails(o) ==
  LET data == ops[o].response[1].data
  IN ~decryptE2EPayload(Field(data, "payload"), Field(data, "salt"),
                        Field(data, "nonce"), ops[o].apiPassword).ok

Untouched(o) ==
  /\ ops[o].setCalls = <<>>
  /\ ops[o].writes = <<>>
  /\ ops[o].created = 0
  /\ ops[o].reloads = 0
  /\ \A t \in openTabs : t.id[1] # o

C10_DecryptFailure ==
  \A o \in OpIds :
    (Decrypted(o) /\ DecryptionFails(o)) =>
      /\ ops[o].pc = "failed"
      /\ ops[o].err = "InvalidPassword"
      /\ Untouched(o)

\* the fetched ciphertext was tampered with and the password is the right one
C10_Witness ==
  \E o \in OpIds :
    /\ Decrypted(o) /\ DecryptionFails(o)
    /\ "payload" \in DOMAIN ops[o].response[1].data
    /\ ops[o].response[1].data.payload[2].tag = "broken"
    /\ ops[o].response[1].data.payload[2].key.password = ops[o].apiPassword
    /\ ops[o].err = "InvalidPassword"

\* C11: every message to the listener gets exactly one response.  A message
\* without a known command type is answered at once with {ok: false,
\* error: "Unknown command"} and no handler runs; a command is answered when
\* its handler settles and not before, with {ok: true, result} carrying the
\* handler's result iff it completed, and {ok: false, error} carrying the
\* error otherwise.
Answered(op) == op.pc = "idle" /\ op.type # "none"

C11_ReplyCount ==
  \A o \in OpIds :
    LET op == ops[o]
    IN /\ Len(op.replies) <= 1
       /\ op.pc # "idle" => (op.replies = <<>> /\ op.type \in Commands)
       /\ Answered(op) => Len(op.replies) = 1
       /\ (Answered(op) /\ op.type \notin Commands) =>
            op = [IdleOp EXCEPT !.type = op.type, !.replies = <<UnknownCommand>>]

C11_ReplyStep(o) ==
  LET op == ops[o]
      after == ops'[o]
  IN /\ (op.pc = "done" /\ after.pc = "idle") =>
          after.replies = <<[ok |-> TRUE, result |-> op.result]>>
     /\ (op.pc = "failed" /\ after.pc = "idle") =>
          (after.replies = <<[ok |-> FALSE, error |-> op.err]>> /\ op.err # "none")
     /\ (op.pc \notin {"done", "failed"} /\ op.replies = <<>>) =>
          (after.replies = <<>> \/ after.replies = <<UnknownCommand>>)

C11_OneResponse ==
  /\ []C11_ReplyCount
  /\ [][\A o \in OpIds : C11_ReplyStep(o)]_vars

\* a check that found the backend was answered with its result
C11_Witness ==
  \E o \in OpIds :
    /\ Answered(ops[o])
    /\ ops[o].type = "check"
    /\ ops[o].replies[1].ok
    /\ ops[o].replies[1].result.backendOk

\* a delete that failed was answered with its error
C11_WitnessError ==
  \E o \in OpIds :
    /\ Answered(ops[o])
    /\ ops[o].type = "delete"
    /\ ~ops[o].replies[1].ok
    /\ ops[o].replies[1].error = "DeleteFailed"

\* C12: a backup sends at most one POST, and sends it only when the cookies
\* are collected, the active tab's storage is read and the harvesting loop
\* is over with no tab of its own left in flight; a backup that fails at a
\* step before the loop (active tab, restricted page, identity, a cookie
\* query, the size guard, the own-origin read) has sent nothing.
PreLoopPcs == {"tabs.query", "get.userId", "stores", "getAll", "getAll.all", "ls.read"}

C12_Submission ==
  \A o \in OpIds :
    LET op == ops[o]
    IN op.type = "backup" =>
         /\ Len(op.requests) <= 1
         /\ op.requests # <<>> =>
              /\ op.pc \in {"fetch", "done", "failed"}
              /\ op.requests[1].method = "POST"
              /\ op.hi = Len(op.hosts) + 1
              /\ op.etab = NoTabId
              /\ HasKey(op.localStorageMap, UrlOrigin(op.tabUrl))
              /\ TabError([url |-> op.tabUrl]) = "none"
              /\ variant = "scoped" => op.userId # ""
              /\ ~CookieSizeExceeded(op.cookies)
         /\ (op.pc = "failed" /\ op.err \notin {"BackupFailed", "NetworkFailure"}) =>
              op.requests = <<>>

C12_SubmissionStep(o) ==
  LET op == ops[o]
      after == ops'[o]
  IN op.type = "backup" =>
       /\ (op.pc \in PreLoopPcs /\ after.pc = "failed") => after.requests = <<>>
       /\ after.requests # op.requests =>
            (after.pc = "idle"
             \/ (op.requests = <<>> /\ op.pc \in {"get.apiPassword", "encrypt"}))
       /\ (op.pc = "failed" /\ after.pc # "idle") => after = op

C12_OneSubmission ==
  /\ []C12_Submission
  /\ [][\A o \in OpIds : C12_SubmissionStep(o)]_vars

\* a backup whose harvesting loop tried a host and failed on it has
\* submitted its one request
C12_Witness ==
  \E o \in OpIds :
    /\ ops[o].type = "backup" /\ ops[o].pc = "done"
    /\ Len(ops[o].requests) = 1
    /\ \E k \in 1..Len(ops[o].harvest) : ops[o].harvest[k].kind # "none"

\* a backup that failed at the own-origin read, with cookies in hand and
\* nothing sent
C12_WitnessAborted ==
  \E o \in OpIds :
    /\ ops[o].type = "backup" /\ ops[o].pc = "failed"
    /\ ops[o].cookies # <<>> /\ ops[o].localStorageMap = EmptyObject
    /\ ops[o].requests = <<>>

\* C13: a check that got past its settings never fails: it ends with two
\* booleans.  A probe that was rejected or answered outside 2xx gives
\* backendOk = false and hasBackup = false with no status request sent; a
\* probe answered 2xx gives backendOk = true, and hasBackup = true iff the
\* status request was answered 2xx with a truthy exists (a rejected status
\* request, another status or an unreadable body give false).  hasBackup
\* implies backendOk.
StatusSaysExists(op) ==
  /\ op.response # <<>>
  /\ op.response[1].status = 200
  /\ op.response[1].json = "object"
  /\ "exists" \in DOMAIN op.response[1].data
  /\ op.response[1].data.exists

C13_Result ==
  \A o \in OpIds :
    LET op == ops[o]
    IN (op.type = "check" /\ op.pc = "done") =>
         /\ DOMAIN op.result = {"backendOk", "domain", "hasBackup", "updatedAt"}
         /\ op.result.backendOk \in BOOLEAN /\ op.result.hasBackup \in BOOLEAN
         /\ op.result.hasBackup => op.result.backendOk
         /\ op.result.backendOk <=> op.probe = "ok"
         /\ ~op.result.backendOk => op.requests = <<ProbeRequest>>
         /\ op.result.backendOk =>
              /\ op.requests = <<ProbeRequest, StatusRequest(op, op.apiPassword)>>
              /\ op.result.hasBackup <=> StatusSaysExists(op)

C13_CheckStep(o) ==
  (ops[o].type = "check" /\ ops[o].pc \in {"probe", "fetch"}) =>
    (ops'[o] = ops[o] \/ (ops'[o].pc \in {"fetch", "done"} /\ ops'[o].err = "none"))

C13_TwoBooleans ==
  /\ []C13_Result
  /\ [][\A o \in OpIds : C13_CheckStep(o)]_vars

\* a reachable backend that answered the status request with a failure:
\* "no backup", not an error
C13_Witness ==
  \E o \in OpIds :
    /\ ops[o].type = "check" /\ ops[o].pc = "done"
    /\ ops[o].result.backendOk /\ ~ops[o].result.hasBackup
    /\ ops[o].response # <<>> /\ ops[o].response[1].status = 500

\* a backup was found
C13_WitnessBackup ==
  \E o \in OpIds :
    /\ ops[o].type = "check" /\ ops[o].pc = "done"
    /\ ops[o].result.hasBackup

\* the backend was down
C13_WitnessDown ==
  \E o \in OpIds :
    /\ ops[o].type = "check" /\ ops[o].pc = "done"
    /\ ~ops[o].result.backendOk /\ ops[o].probe = "throw"

\* C20: a delete sends one DELETE request for the identity's record.  When
\* the answer is 2xx the delete completes, with deleted = true iff the body
\* has a truthy deleted field (a body without the field, or one that is
\* not JSON, gives deleted = false and no error); when the answer is
\* outside 2xx it fails with DeleteFailed.
DeleteAnswered(op) ==
  op.type = "delete" /\ op.response # <<>> /\ op.pc \in {"done", "failed"}

TruthyDeleted(response) ==
  /\ response.json = "object"
  /\ "deleted" \in DOMAIN response.data
  /\ response.data.deleted

DeleteOutcome(op) ==
  /\ op.requests = <<DeleteRequest(op, op.apiPassword)>>
  /\ IF op.response[1].status = 200
       THEN /\ op.pc = "done"
            /\ op.result.domain = op.rootDomain
            /\ op.result.deleted <=> TruthyDeleted(op.response[1])
       ELSE op.pc = "failed" /\ op.err = "DeleteFailed"

C20_DeleteResult ==
  \A o \in OpIds : DeleteAnswered(ops[o]) => DeleteOutcome(ops[o])

\* the same, for every answer but a 2xx whose body is the JSON value null
C20_DeleteResultOfObjects ==
  \A o \in OpIds :
    (DeleteAnswered(ops[o]) /\ ops[o].response[1].json # "null") => DeleteOutcome(ops[o])

\* a 2xx answer whose body is not JSON: deleted = false, and no error
C20_WitnessUnparsable ==
  \E o \in OpIds :
    /\ DeleteAnswered(ops[o]) /\ ops[o].pc = "done"
    /\ ops[o].response[1].json = "none"
    /\ ~ops[o].result.deleted

\* C14: getRootDomain returns the last two labels of the hostname, joined
\* by a dot, when the hostname has more than two labels, and the hostname
\* otherwise; so it returns the same for every hostname that ends in the
\* same two labels.  https://login.example.com/x and https://example.com
\* give example.com, https://a.example.co.uk gives co.uk.
LastTwo(labels) ==
  IF Len(labels) > 2 THEN <<labels[Len(labels) - 1], labels[Len(labels)]>> ELSE labels

\* hostnames that end in the same two labels: none, one or two labels
\* before them
SameLastTwo(labels) ==
  {prefix \o LastTwo(labels) : prefix \in LabelSeqs(0, 2)}

RootDomainCalled == call.fn = "getRootDomain" /\ call.returned

C14_Examples ==
  /\ getRootDomain(<<"https", "://", "login", ".", "example", ".", "com", "/x">>)
       = <<"example", ".", "com">>
  /\ getRootDomain(<<"https", "://", "example", ".", "com">>) = <<"example", ".", "com">>
  /\ getRootDomain(<<"https", "://", "a", ".", "example", ".", "co", ".", "uk">>)
       = <<"co", ".", "uk">>

C14_RootDomain ==
  RootDomainCalled =>
    /\ call.value = Host(LastTwo(call.labels))
    /\ Len(call.labels) <= 2 => call.value = UrlHostname(call.args[1])
    /\ Len(call.labels) >= 2 =>
         \A peer \in SameLastTwo(call.labels) :
           getRootDomain(Url("https", peer, EmptyStr)) = call.value
    /\ C14_Examples

\* the call of the claim's third example has returned co.uk
C14_Witness ==
  /\ RootDomainCalled
  /\ call.args = <<(<<"https", "://", "a", ".", "example", ".", "co", ".", "uk">>)>>
  /\ call.value = <<"co", ".", "uk">>

\* C15: isRestrictedUrl is true of every URL that begins with chrome://,
\* chrome-extension:// or edge://, and false of every http:// and
\* https:// URL.
RestrictedCalled == call.fn = "isRestrictedUrl" /\ call.returned

C15_Restricted ==
  RestrictedCalled =>
    LET url == call.args[1]
    IN /\ (SubSeq(url, 1, 2) \in {<<"chrome", "://">>, <<"chrome-extension", "://">>,
                                   <<"edge", "://">>}) => call.value = <<TRUE>>
       /\ (SubSeq(url, 1, 2) \in {<<"http", "://">>, <<"https", "://">>}) =>
            call.value = <<FALSE>>

\* an edge:// page was found restricted
C15_Witness ==
  /\ RestrictedCalled
  /\ call.args[1][1] = "edge"
  /\ call.value = <<TRUE>>

\* an https:// page was found not restricted
C15_WitnessWeb ==
  /\ RestrictedCalled
  /\ call.args[1][1] = "https"
  /\ call.value = <<FALSE>>

\* C18: the storage snapshot a backup submits has an entry for the active
\* tab's origin, holding the data read from the active tab itself; the
\* snapshot only grows, by one entry at a time under an origin that had
\* none, so no entry is replaced by a later harvest, not even when a
\* candidate host lands on an origin that is in the snapshot already.
SubmittedSnapshot(request) ==
  IF "payload" \in DOMAIN request.body
    THEN SealedIn(request.body).payload.local_storage
    ELSE request.body.local_storage

C18_Snapshot ==
  \A o \in OpIds :
    Submitted(o) =>
      LET snapshot == SubmittedSnapshot(ops[o].requests[1])
          currentOrigin == UrlOrigin(ops[o].tabUrl)
      IN /\ HasKey(snapshot, currentOrigin)
         /\ Lookup(snapshot, currentOrigin) = PageData(currentOrigin)
         /\ \A i, j \in 1..Len(snapshot) : snapshot[i].key = snapshot[j].key => i = j

C18_SnapshotStep(o) ==
  LET before == ops[o].localStorageMap
      after == ops'[o].localStorageMap
  IN (ops[o].type = "backup" /\ ops'[o].pc # "idle" /\ before # EmptyObject) =>
       /\ Len(after) \in {Len(before), Len(before) + 1}
       /\ SubSeq(after, 1, Len(before)) = before
       /\ Len(after) > Len(before) => ~HasKey(before, after[Len(after)].key)

C18_ActiveOriginKept ==
  /\ []C18_Snapshot
  /\ [][\A o \in OpIds : C18_SnapshotStep(o)]_vars

\* a candidate host landed on the active tab's origin, where the page's
\* storage had changed in the meantime; the backup was submitted
C18_Witness ==
  \E o \in OpIds :
    /\ Submitted(o)
    /\ \E k \in 1..Len(ops[o].harvest) :
         /\ ops[o].harvest[k].origin = UrlOrigin(ops[o].tabUrl)
         /\ ops[o].harvest[k].data = PageDataLater(UrlOrigin(ops[o].tabUrl))

\* C17: a restore that has written the cookies and the current origin's
\* storage goes through the other origins of the record and then calls
\* chrome.tabs.reload on the active tab, once: a failed write to another
\* origin does not fail the restore and does not stop the loop, every other
\* origin is attempted before the reload, and a restore that is done has
\* reloaded once.
OtherOrigins(op) ==
  {i \in 1..Len(op.hosts) : op.hosts[i] # UrlOrigin(op.tabUrl)}

InWriteLoop(o) == ops[o].type = "restore" /\ ops[o].pc \in WritePcs

C17_Reload ==
  \A o \in OpIds :
    LET op == ops[o]
    IN op.type = "restore" =>
         /\ op.reloads <= 1
         /\ op.pc \in {"tabs.reload", "done"} => op.reloads = 1
         /\ op.reloads = 1 => op.pc \in {"tabs.reload", "done", "failed"}
         /\ op.reloads = 1 =>
              /\ op.etab = NoTabId
              /\ op.hosts = Keys(op.localStorageMap)
              /\ Len(op.harvest) = Cardinality(OtherOrigins(op))
              /\ \A i \in OtherOrigins(op) :
                   \E k \in 1..Len(op.harvest) : op.harvest[k].host = op.hosts[i]
              /\ HasKey(op.localStorageMap, UrlOrigin(op.tabUrl)) =>
                   (op.applied # <<>> /\ op.applied[1].origin = UrlOrigin(op.tabUrl))

C17_WriteStep(o) ==
  InWriteLoop(o) =>
    \/ ops'[o] = ops[o]
    \/ /\ ops'[o].pc \in WritePcs \cup {"tabs.reload"}
       /\ ops'[o].err = "none"
       /\ ops'[o].reloads = IF ops'[o].pc = "tabs.reload" THEN 1 ELSE 0

C17_ReloadOnce ==
  /\ []C17_Reload
  /\ [][\A o \in OpIds : C17_WriteStep(o)]_vars
  /\ \A o \in OpIds : InWriteLoop(o) ~> (ops[o].reloads = 1)

\* three other origins: the first written, the second failed, the third
\* written after it; the tab was reloaded and the restore is done
C17_Witness ==
  \E o \in OpIds :
    LET op == ops[o]
    IN /\ op.type = "restore" /\ op.pc = "done" /\ op.reloads = 1
       /\ Len(op.harvest) = 3
       /\ op.harvest[1].kind = "none"
       /\ op.harvest[2].kind # "none"
       /\ op.harvest[3].kind = "none"

\* C19: when a restore runs in the same tab, for the same identity and with
\* the same password setting, against the record a backup stored, every
\* cookie of the backup yields one chrome.cookies.set call with its name,
\* value, path, secure and httpOnly, and after the restore the storage of
\* the active tab's origin is what the backup captured for it.
BackupPassword(record) ==
  IF "payload" \in DOMAIN record.body THEN SealedIn(record.body).password
  ELSE IF "X-USK-Password" \in DOMAIN record.headers THEN record.headers["X-USK-Password"]
  ELSE ""

BackedUp(record) ==
  IF "payload" \in DOMAIN record.body
    THEN SealedIn(record.body).payload
    ELSE [cookies |-> record.body.cookies, local_storage |-> record.body.local_storage]

RoundTrip(o) ==
  /\ ops[o].type = "restore" /\ ops[o].pc = "done"
  /\ remote # NoRecord
  /\ FetchedRecord(o)
  /\ ops[o].response[1].data = Content(remote[1].body)
  /\ BackupPassword(remote[1]) = ops[o].apiPassword
  /\ variant = "scoped" => remote[1].body.user_id = ops[o].userId
  /\ remote[1].body.domain = ops[o].rootDomain

\* what localStorage of the pages at `origin` holds after the writes
StorageAfter(applied, origin) ==
  LET at == SelectSeq(applied, LAMBDA w : w.origin = origin)
  IN IF at = <<>> THEN <<>> ELSE <<at[Len(at)].data>>

CookiesReplayed(o) ==
  LET cookies == BackedUp(remote[1]).cookies
      setCalls == ops[o].setCalls
  IN /\ Len(setCalls) = Len(cookies)
     /\ \A i \in 1..Len(cookies) :
          /\ setCalls[i].name = cookies[i].name
          /\ setCalls[i].value = cookies[i].value
          /\ setCalls[i].path = cookies[i].path
          /\ setCalls[i].secure = cookies[i].secure
          /\ setCalls[i].httpOnly = cookies[i].httpOnly

StorageReplayed(o) ==
  LET currentOrigin == UrlOrigin(ops[o].tabUrl)
  IN StorageAfter(ops[o].applied, currentOrigin)
       = <<Lookup(BackedUp(remote[1]).local_storage, currentOrigin)>>

C19_RoundTripReplay ==
  \A o \in OpIds : RoundTrip(o) => (CookiesReplayed(o) /\ StorageReplayed(o))

\* the cookie half of it
C19_RoundTripCookies ==
  \A o \in OpIds : RoundTrip(o) => CookiesReplayed(o)

\* the storage half, when no tab opened for another origin was on the
\* active tab's origin at the time of its write
C19_RoundTripStorageUnredirected ==
  \A o \in OpIds :
    (RoundTrip(o)
       /\ \A k \in 2..Len(ops[o].applied) :
            ops[o].applied[k].origin # UrlOrigin(ops[o].tabUrl)) =>
      StorageReplayed(o)

\* a round trip with cookies and another origin in the record
C19_WitnessRoundTrip ==
  \E o \in OpIds :
    /\ RoundTrip(o)
    /\ ops[o].setCalls # <<>>
    /\ Len(ops[o].harvest) >= 1 /\ ops[o].harvest[1].kind = "none"
    /\ StorageReplayed(o)

\* C16: in the popup, while a backup, restore or delete that was triggered
\* has not been answered, the three buttons are all disabled, so that at
\* most one action is in flight, whatever status checks started before it
\* are answered meanwhile.
C16_DisabledInFlight ==
  popup.open =>
    /\ popup.actions # <<>> => \A b \in Buttons : popup.disabled[b]
    /\ Len(popup.actions) <= 1

\* the same when popup.html ships the three buttons disabled
C16_DisabledInFlightShippedDisabled ==
  (popup.open /\ popup.markup = "disabled") =>
    /\ popup.actions # <<>> => \A b \in Buttons : popup.disabled[b]
    /\ Len(popup.actions) <= 1

\* a backup and a restore in flight together
C16_WitnessTwoActions ==
  /\ popup.open
  /\ popup.actions = <<"backup", "restore">>

\* C21: in the identity-scoped variant a backup, restore, delete or check
\* that finds no user id configured fails there with MissingIdentity, with
\* no request sent; and every request to the remote store other than the
\* probe of the backend names a non-empty user id: user_id in the body of
\* the backup's POST, the X-USK-User header of the restore, delete and
\* status requests.
NamesUser(request) ==
  IF request.method = "POST"
    THEN "user_id" \in DOMAIN request.body /\ request.body.user_id # ""
    ELSE "X-USK-User" \in DOMAIN request.headers /\ request.headers["X-USK-User"] # ""

C21_Identity ==
  \A o \in OpIds :
    LET op == ops[o]
    IN (variant = "scoped" /\ op.type \in Commands) =>
         /\ op.userId = "" => op.requests = <<>>
         /\ op.err = "MissingIdentity" => (op.pc \in {"failed", "idle"} /\ op.requests = <<>>)
         /\ \A i \in 1..Len(op.requests) :
              op.requests[i] # ProbeRequest =>
                /\ NamesUser(op.requests[i])
                /\ op.requests[i].method = "POST" => op.requests[i].body.user_id = op.userId
                /\ op.requests[i].method # "POST" =>
                     op.requests[i].headers["X-USK-User"] = op.userId

C21_IdentityStep(o) ==
  (variant = "scoped" /\ ops[o].pc = "get.userId" /\ settings.userId = ""
     /\ ops'[o] # ops[o]) =>
    /\ ops'[o].pc = "failed"
    /\ ops'[o].err \in {"MissingIdentity", "ApiError"}
    /\ ops'[o].requests = <<>>

C21_IdentityOnEveryRequest ==
  /\ []C21_Identity
  /\ [][\A o \in OpIds : C21_IdentityStep(o)]_vars

\* a delete found no user id and failed with nothing sent
C21_Witness ==
  \E o \in OpIds :
    /\ variant = "scoped"
    /\ ops[o].type = "delete" /\ ops[o].pc = "failed"
    /\ ops[o].err = "MissingIdentity"
    /\ ops[o].requests = <<>>

\* a status request went out under the user's name
C21_WitnessStatus ==
  \E o \in OpIds :
    /\ variant = "scoped"
    /\ ops[o].type = "check" /\ Len(ops[o].requests) = 2
    /\ NamesUser(ops[o].requests[2])

\* C22: the tabs a backup or a restore opens are used one at a time: at
\* most one of its tabs is open at any moment, a tab is created only when
\* none of its tabs is open, and the hosts (for a restore, the origins) are
\* taken in the order in which they were discovered.
TabsOf(o) == {t \in openTabs : t.id[1] = o}

CurrentOf(op) ==
  IF op.type = "backup" THEN UrlHostname(op.tabUrl) ELSE UrlOrigin(op.tabUrl)

\* the hosts to visit, in discovery order
Others(op) == SelectSeq(op.hosts, LAMBDA h : h # CurrentOf(op))

\* how many hosts the first k attempts were about
HostsTried(op, k) == Cardinality({op.harvest[j].host : j \in 1..k})

C22_OneAtATime ==
  \A o \in OpIds :
    LET op == ops[o]
    IN op.type \in {"backup", "restore"} =>
         /\ Cardinality(TabsOf(o)) <= 1
         /\ LET k == Len(op.harvest)
            IN k > 0 =>
                 /\ HostsTried(op, k) <= Len(Others(op))
                 /\ op.harvest[k].host = Others(op)[HostsTried(op, k)]
         /\ op.pc \in (ReadPcs \cup WritePcs) =>
              op.hosts[op.hi] = Others(op)[HostsTried(op, Len(op.harvest))
                                            + (IF op.scheme = "http" THEN 0 ELSE 1)]

\* the log of attempts only grows at its end, so the last entry of every
\* state covers every entry
C22_LogStep(o) ==
  \/ ops'[o].harvest = ops[o].harvest
  \/ ops'[o].harvest = <<>> /\ ops'[o].pc = "idle"
  \/ /\ Len(ops'[o].harvest) = Len(ops[o].harvest) + 1
     /\ SubSeq(ops'[o].harvest, 1, Len(ops[o].harvest)) = ops[o].harvest
     /\ ops'[o].hosts = ops[o].hosts

C22_CreateStep(o) ==
  ops'[o].created > ops[o].created =>
    /\ TabsOf(o) = {}
    /\ ops'[o].created = ops[o].created + 1
    /\ openTabs' = openTabs \cup {t \in openTabs' : t.id = <<o, ops'[o].created>>}

C22_Serialized ==
  /\ []C22_OneAtATime
  /\ [][\A o \in OpIds : C22_LogStep(o) /\ C22_CreateStep(o)]_vars

\* the third host's tab is open, after the tabs of the first two (one of
\* them retried over HTTP) were opened and closed
C22_Witness ==
  \E o \in OpIds :
    /\ ops[o].type = "backup"
    /\ Cardinality(TabsOf(o)) = 1
    /\ ops[o].created = 4
    /\ HostsTried(ops[o], Len(ops[o].harvest)) = 2

\* C23: in a backup every candidate host other than the active tab's is
\* tried over HTTPS first; it is tried over HTTP, once, iff the HTTPS
\* attempt failed, and never again: at most two tabs per host, and none
\* for the active tab's own hostname.
AttemptsAt(op, host) == SelectSeq(op.harvest, LAMBDA e : e.host = host)

C23_Attempts ==
  \A o \in OpIds :
    LET op == ops[o]
    IN op.type = "backup" =>
         /\ AttemptsAt(op, UrlHostname(op.tabUrl)) = <<>>
         /\ op.created <= Len(op.harvest) + (IF op.pc \in ReadPcs THEN 1 ELSE 0)
         /\ \A i \in 1..Len(op.hosts) :
              LET tries == AttemptsAt(op, op.hosts[i])
                  over == i < op.hi \/ op.pc \notin ReadPcs
              IN /\ Len(tries) <= 2
                 /\ Len(tries) >= 1 => tries[1].scheme = "https"
                 /\ Len(tries) = 2 => (tries[2].scheme = "http" /\ tries[1].kind # "none")
                 /\ (over /\ op.hi > 0 /\ op.hosts[i] # UrlHostname(op.tabUrl)
                       /\ op.pc # "failed") =>
                      /\ Len(tries) >= 1
                      /\ tries[1].kind # "none" => Len(tries) = 2

\* the tab that is created is the one of the attempt that is due
C23_CreateStep(o) ==
  (ops[o].type = "backup" /\ ops'[o].created > ops[o].created) =>
    LET op == ops[o]
        host == op.hosts[op.hi]
        new == CHOOSE t \in openTabs' : t.id = <<o, ops'[o].created>>
    IN /\ host # UrlHostname(op.tabUrl)
       /\ new.url = IF AttemptsAt(op, host) = <<>> THEN HttpsUrl(host) ELSE HttpUrl(host)

C23_HttpsThenHttpOnce ==
  /\ []C23_Attempts
  /\ [][\A o \in OpIds : C23_CreateStep(o)]_vars

\* one host read over HTTPS, the next failed over HTTPS and was read over
\* HTTP, the third failed over both
C23_Witness ==
  \E o \in OpIds :
    LET op == ops[o]
    IN /\ op.type = "backup" /\ op.pc = "done"
       /\ Len(op.harvest) = 5
       /\ op.harvest[1].kind = "none"
       /\ op.harvest[2].kind # "none" /\ op.harvest[3].kind = "none"
       /\ op.harvest[3].scheme = "http"
       /\ op.harvest[4].kind # "none" /\ op.harvest[5].kind # "none"

\* C26: backup, restore, delete and check begin with the active tab: with
\* no active tab, or one without URL, the operation fails with NoActiveTab,
\* with a restricted URL it fails with UnsupportedPage, and in both cases
\* it has queried or set no cookie, read or written no storage, created no
\* tab and sent no request.
NoEffects(op) ==
  /\ op.qi = 0 /\ op.buckets = <<>> /\ op.cookies = <<>>
  /\ op.setCalls = <<>>
  /\ op.harvest = <<>> /\ op.localStorageMap = EmptyObject
  /\ op.writes = <<>> /\ op.applied = <<>> /\ op.reloads = 0
  /\ op.created = 0 /\ op.etab = NoTabId
  /\ op.requests = <<>> /\ op.probe = ""
  /\ op.queries = <<>> /\ op.stores = ""

C26_TabErrors ==
  \A o \in OpIds :
    LET op == ops[o]
    IN op.type \in Commands =>
         /\ op.pc = "tabs.query" => NoEffects(op)
         /\ op.err \in {"NoActiveTab", "UnsupportedPage"} =>
              op.pc \in {"failed", "idle"} /\ NoEffects(op)

OnRestrictedScheme(url) ==
  url # EmptyStr /\ url[1] \in {"chrome", "chrome-extension", "edge"}

C26_TabStep(o) ==
  LET op == ops[o]
      after == ops'[o]
  IN /\ (op.pc = "idle" /\ after.pc # "idle") => after.pc = "tabs.query"
     /\ (op.pc = "tabs.query" /\ after # op) =>
          /\ (activeTab.id = NoTabId \/ activeTab.url = EmptyStr) =>
               (after.pc = "failed" /\ after.err \in {"NoActiveTab", "ApiError"})
          /\ (activeTab.id # NoTabId /\ OnRestrictedScheme(activeTab.url)) =>
               (after.pc = "failed" /\ after.err \in {"UnsupportedPage", "ApiError"})
          /\ after.pc = "failed" => NoEffects(after) /\ openTabs' = openTabs
          /\ after.err \in {"NoActiveTab", "UnsupportedPage"} <=>
               (after.pc = "failed" /\ after.err # "ApiError")
          /\ after.pc # "failed" =>
               /\ activeTab.id # NoTabId
               /\ activeTab.url # EmptyStr
               /\ ~OnRestrictedScheme(activeTab.url)

C26_ActiveTabFirst ==
  /\ []C26_TabErrors
  /\ [][\A o \in OpIds : C26_TabStep(o)]_vars

C26_Witness ==
  \E o \in OpIds :
    /\ ops[o].type = "restore" /\ ops[o].pc = "failed"
    /\ ops[o].err = "UnsupportedPage"

C26_WitnessNoTab ==
  \E o \in OpIds :
    /\ ops[o].type = "check" /\ ops[o].pc = "failed"
    /\ ops[o].err = "NoActiveTab" /\ activeTab = NoTab

\* C27: collectCandidateHosts(cookies, currentHostname) returns, each
\* once, the current hostname and the domain of every cookie without its
\* one leading dot, and nothing else; a cookie without domain adds
\* nothing, and the current hostname is there also when there is no cookie.
HostsCalled == call.fn = "collectCandidateHosts" /\ call.returned

Undotted(domain) ==
  IF domain # EmptyStr /\ Head(domain) = "." THEN SubSeq(domain, 2, Len(domain)) ELSE domain

C27_CandidateHosts ==
  HostsCalled =>
    LET cookies == call.args[1]
        currentHostname == call.args[2]
        hosts == call.value
    IN /\ \A i, j \in 1..Len(hosts) : hosts[i] = hosts[j] => i = j
       /\ {hosts[i] : i \in 1..Len(hosts)} =
            {currentHostname}
              \cup {Undotted(cookies[k].domain) :
                      k \in {n \in 1..Len(cookies) : cookies[n].domain # EmptyStr}}
       /\ \E i \in 1..Len(hosts) : hosts[i] = currentHostname
       /\ cookies = <<>> => hosts = <<currentHostname>>

\* .example.com, example.com and a cookie without domain, on login.example.com
C27_Witness ==
  /\ HostsCalled
  /\ call.args = <<(<<SessionCookie, RootCookie, NoDomainCookie>>), LoginHost>>
  /\ call.value = <<LoginHost, RootHost>>

C27_WitnessNoCookies ==
  HostsCalled /\ call.args[1] = <<>> /\ call.value = <<RootHost>>

\* the cookie set of the backup is final
Collected(op) ==
  /\ op.type = "backup"
  /\ op.pc = "ls.read" \/ (op.pc = "failed" /\ op.err = "PayloadTooLarge")

Elements(seq) == {seq[i] : i \in 1..Len(seq)}

\* what the scoped queries issued so far returned
ScopedAnswers(op) ==
  UNION {Elements(op.queries[k].result) :
           k \in {n \in 1..Len(op.queries) : n <= 4}}

FallbackIssued(op) == op.pc = "getAll.all" \/ Len(op.queries) = 5

InScope(cookie, rootDomain, currentHostname) ==
  LET domain == Undotted(cookie.domain)
  IN \/ domain = currentHostname
     \/ domain = rootDomain
     \/ /\ Len(domain) > Len(rootDomain)
        /\ SubSeq(domain, Len(domain) - Len(rootDomain), Len(domain)) = <<".">> \o rootDomain

DistinctKeys(cookies) ==
  \A i, j \in 1..Len(cookies) :
    IdentityKey(cookies[i]) = IdentityKey(cookies[j]) => i = j

\* C28: the whole store is scanned iff the four scoped queries together
\* returned no cookie; after a scan the collected cookies are exactly the
\* scanned cookies whose undotted domain is the current hostname, the root
\* domain or a subdomain of the root domain, one per identity key; without
\* a scan they are the cookies the scoped queries returned.
C28_Fallback ==
  \A o \in OpIds :
    LET op == ops[o]
    IN (op.type = "backup" /\ (op.pc = "getAll.all" \/ Collected(op))) =>
         /\ FallbackIssued(op) <=> ScopedAnswers(op) = {}
         /\ (Collected(op) /\ FallbackIssued(op)) =>
              /\ DOMAIN op.queries[5].query \subseteq {"storeId"}
              /\ Elements(op.cookies) =
                   {c \in Elements(op.queries[5].result) :
                      InScope(c, op.rootDomain, UrlHostname(op.tabUrl))}
              /\ DistinctKeys(op.cookies)
         /\ (Collected(op) /\ ~FallbackIssued(op)) =>
              /\ Len(op.queries) = 4
              /\ Elements(op.cookies) \subseteq ScopedAnswers(op)
              /\ {IdentityKey(c) : c \in Elements(op.cookies)} =
                   {IdentityKey(c) : c \in ScopedAnswers(op)}

\* C29: the scoped queries go out as domain, tab URL, origin, origin with
\* a slash, in this order, and every cookie kept is the record of the
\* first query that returned its identity key.
ExpectedQueries(op) ==
  <<[domain |-> op.rootDomain],
    [url |-> op.tabUrl],
    [url |-> UrlOrigin(op.tabUrl)],
    [url |-> UrlOrigin(op.tabUrl) \o <<"/">>]>>

SameQuery(issued, expected) ==
  /\ DOMAIN expected \subseteq DOMAIN issued
  /\ DOMAIN issued \subseteq DOMAIN expected \cup {"storeId"}
  /\ \A f \in DOMAIN expected : issued[f] = expected[f]

\* the first of the four queries that returned the identity key
FirstQueryWith(op, key) ==
  CHOOSE k \in 1..4 :
    /\ \E c \in Elements(op.queries[k].result) : IdentityKey(c) = key
    /\ \A j \in 1..(k - 1) :
         \A c \in Elements(op.queries[j].result) : IdentityKey(c) # key

C29_QueryOrder ==
  \A o \in OpIds :
    LET op == ops[o]
    IN op.type = "backup" =>
         /\ \A k \in 1..Len(op.queries) :
              k <= 4 => SameQuery(op.queries[k].query, ExpectedQueries(op)[k])
         /\ op.pc = "getAll" => Len(op.queries) = op.qi - 1
         /\ (Collected(op) /\ Len(op.queries) = 4) =>
              /\ DistinctKeys(op.cookies)
              /\ \A i \in 1..Len(op.cookies) :
                   op.cookies[i] \in
                     Elements(op.queries[FirstQueryWith(op, IdentityKey(op.cookies[i]))].result)

\* the session cookie was returned by the first query and, with a newer
\* value, by a later one
C29_Witness ==
  \E o \in OpIds :
    LET op == ops[o]
    IN /\ Collected(op) /\ Len(op.queries) = 4
       /\ SessionCookie \in Elements(op.queries[1].result)
       /\ \E k \in 2..4 :
            [SessionCookie EXCEPT !.value = "later"] \in Elements(op.queries[k].result)
       /\ SessionCookie \in Elements(op.cookies)

\* C30: when the store that holds the tab is found, the four scoped
\* queries and the scan of the store carry its id; when the lookup fails
\* or finds no such store the backup goes on and none of them carries a
\* store id.
C30_Stores ==
  \A o \in OpIds :
    LET op == ops[o]
    IN (op.type = "backup" /\ op.stores # "") =>
         /\ op.stores = "found" =>
              /\ op.storeId # Null
              /\ \A k \in 1..Len(op.queries) :
                   /\ "storeId" \in DOMAIN op.queries[k].query
                   /\ op.queries[k].query.storeId = op.storeId
         /\ op.stores \in {"absent", "error"} =>
              \A k \in 1..Len(op.queries) : "storeId" \notin DOMAIN op.queries[k].query
         /\ Collected(op) => Len(op.queries) \in {4, 5}

C30_StoresStep(o) ==
  (ops[o].type = "backup" /\ ops[o].pc = "stores" /\ ops'[o] # ops[o]) =>
    /\ ops'[o].pc = "getAll"
    /\ ops'[o].stores \in {"found", "absent", "error"}
    /\ ops'[o].queries = <<>>

C30_StoreIdOnQueries ==
  /\ []C30_Stores
  /\ [][\A o \in OpIds : C30_StoresStep(o)]_vars

C30_Witness ==
  \E o \in OpIds :
    /\ Collected(ops[o]) /\ ops[o].stores = "found"
    /\ Len(ops[o].queries) = 5 /\ ops[o].cookies # <<>>

C30_WitnessLookupFailed ==
  \E o \in OpIds :
    /\ Collected(ops[o]) /\ ops[o].stores = "error"
    /\ Len(ops[o].queries) = 5 /\ ops[o].cookies # <<>>

\* C24: waitForTabLoad(tabId) settles once: it resolves when, with the
\* timer not yet fired, an onUpdated event reports the tab complete or the
\* first chrome.tabs.get finds it complete, and it rejects with the
\* tab-load timeout when the timer fires first; whatever the order of the
\* three, a settled wait has no listener and no armed timer, and an event
\* of another tab settles nothing.
Waiting == call.fn = "waitForTabLoad"

C24_Settled ==
  Waiting =>
    /\ call.promise # "pending" => (call.listeners = {} /\ call.timeout # "armed")
    /\ call.promise = "pending" => (call.listeners = {"onUpdated"} /\ call.timeout = "armed")
    /\ call.promise = "resolved" => (call.error = "none" /\ call.timeout = "cleared")
    /\ call.promise = "rejected" => (call.error = "TabLoadTimeout" /\ call.timeout = "fired")

CompleteSignal(event, tabId) ==
  /\ event.kind \in {"updated", "get"}
  /\ event.id = tabId
  /\ event.status = "complete"

C24_SettleStep ==
  (Waiting /\ call' # call) =>
    LET event == call'.last
    IN /\ call.promise # "pending" =>
            (call'.promise = call.promise /\ call'.error = call.error
               /\ call'.listeners = {} /\ call'.timeout = call.timeout)
       /\ call.promise = "pending" =>
            /\ call'.promise = "resolved" <=> CompleteSignal(event, call.args[1])
            /\ call'.promise = "rejected" <=> event.kind = "timeout"
       /\ event.id # call.args[1] => call'.promise = call.promise

C24_SettlesOnce ==
  /\ []C24_Settled
  /\ [][C24_SettleStep]_vars
  /\ <>(Waiting /\ call.promise # "pending")

\* the timer fired first; the tab was found complete by chrome.tabs.get
\* afterwards
C24_Witness ==
  /\ Waiting /\ call.promise = "rejected"
  /\ call.last = [kind |-> "get", id |-> WaitedTabId, status |-> "complete"]

\* resolved by the event, after an event of another tab
C24_WitnessResolved ==
  /\ Waiting /\ call.promise = "resolved" /\ call.get = "pending"
  /\ call.updates = 2 /\ call.timeout = "cleared"

\* C25: nothing keeps a command from starting or going on while another
\* runs: a command received while another handler is running is started,
\* every handler that is waiting at a browser call or a request can take
\* its next step whatever the other handler is doing, and a backup and a
\* restore of one user can be running at once.
InFlight(o) == ops[o].pc \notin {"idle", "done", "failed"}

C25_Unblocked ==
  \A o \in lanes :
    /\ ops[o].pc = "idle" => \A type \in Commands : ENABLED Receive(o, type)
    /\ InFlight(o) => ENABLED HandlerStep(o)
    /\ ops[o].pc \in {"done", "failed"} => ENABLED Respond(o)

\* a step of one handler leaves the other invocation as it is
C25_OwnStep ==
  \A o, other \in OpIds :
    (o # other /\ ops'[o] # ops[o]) => ops'[other] = ops[other]

C25_NoMutualExclusion ==
  /\ []C25_Unblocked
  /\ [][C25_OwnStep]_vars

\* the backup's POST and the restore's GET for the same user are both in
\* flight
C25_Witness ==
  /\ ops[1].type = "backup" /\ ops[1].pc = "fetch"
  /\ ops[2].type = "restore" /\ ops[2].pc = "fetch"
  /\ ops[1].userId = ops[2].userId /\ ops[1].userId # ""

\* the restore sets cookies while the backup is reading them
C25_WitnessCookies ==
  /\ ops[1].type = "backup" /\ ops[1].pc = "getAll" /\ ops[1].qi = 3
  /\ ops[2].type = "restore" /\ ops[2].pc = "cookies.set"

\* C31: outside the harvesting loops no call is tried twice, and a failed
\* browser call or request fails the operation, but for the calls the
\* code wraps in a try: the lookup of the cookie store (backup and
\* restore) and the two requests of a check, whose failure the operation
\* survives.
LoopPcs == ReadPcs \cup WritePcs

CallPcs ==
  {"tabs.query", "get.userId", "get.apiBase", "get.apiPassword", "stores", "getAll",
   "getAll.all", "ls.read", "cookies.set", "ls.write", "tabs.reload", "fetch", "probe"}

\* the calls whose failure is caught
Caught(op) ==
  \/ op.pc = "stores"
  \/ op.type = "check" /\ op.pc \in {"probe", "fetch"}

\* the next step of the handler of invocation o, outside the loops
StepOutsideLoop(o) ==
  \/ HandlerStep(o)
  \/ D_ActiveTab(o) \/ D_UserId(o) \/ D_ApiBase(o) \/ D_ApiPassword(o) \/ D_Fetch(o)
  \/ K_ActiveTab(o) \/ K_ApiBase(o) \/ K_UserId(o) \/ K_ApiPassword(o)
  \/ K_Probe(o) \/ K_Status(o)

Fails(o) == StepOutsideLoop(o) /\ ops'[o].pc = "failed"

\* a call is awaited that can fail
CallInFlight(op) ==
  /\ op.type \in Commands
  /\ op.pc \in CallPcs
  /\ op.pc = "cookies.set" => op.setCalls # <<>>

C31_FailureFails ==
  \A o \in OpIds :
    CallInFlight(ops[o]) => (ENABLED Fails(o) <=> ~Caught(ops[o]))

\* the same call is not made again
C31_NoRetry(o) ==
  LET op == ops[o]
      after == ops'[o]
  IN (op.type \in Commands /\ op.pc \in CallPcs /\ after # op) =>
       \/ after.pc # op.pc
       \/ op.pc = "getAll" /\ after.qi = op.qi + 1

C31_WitnessCaught ==
  \E o \in OpIds :
    ops[o].type = "check" /\ ops[o].pc = "done" /\ ops[o].probe = "throw"

\* C32: a write replaces what the origin held: after a successful write
\* for an origin, the storage of that origin is the data written for it,
\* and the storage of the active tab's origin is written only with the
\* record's entry for that origin.
WrittenWhereAsked(op) ==
  \A k \in 1..Len(op.harvest) :
    op.harvest[k].kind = "none" =>
      StorageAfter(op.applied, op.harvest[k].host)
        = <<Lookup(op.localStorageMap, op.harvest[k].host)>>

ActiveOriginOwnEntry(op) ==
  \A j \in 1..Len(op.applied) :
    op.applied[j].origin = UrlOrigin(op.tabUrl) =>
      /\ HasKey(op.localStorageMap, UrlOrigin(op.tabUrl))
      /\ op.applied[j].data = Lookup(op.localStorageMap, UrlOrigin(op.tabUrl))

C32_WriteReplaces ==
  \A o \in OpIds :
    ops[o].type = "restore" => (WrittenWhereAsked(ops[o]) /\ ActiveOriginOwnEntry(ops[o]))

\* C33: the effects of a restore come in a fixed order: cookies are set only
\* once the record has been fetched (and, with a password, decrypted); storage
\* is written only once every cookie-set has completed; the active origin is
\* written before any background tab is opened; the reload of the active tab
\* is the last effect.
RecordRead(op) ==
  /\ op.response # <<>>
  /\ op.response[1].status = 200
  /\ op.response[1].json
  /\ LET data == op.response[1].data
     IN IF variant = "scoped" /\ op.apiPassword # ""
          THEN LET decrypted == decryptE2EPayload(Field(data, "payload"), Field(data, "salt"),
                                                  Field(data, "nonce"), op.apiPassword)
               IN decrypted.ok /\ op.cookies = CookiesOf(decrypted.value)
          ELSE op.cookies = CookiesOf(data)

C33_Order(o) ==
  LET op == ops[o]
      after == ops'[o]
      currentOrigin == UrlOrigin(op.tabUrl)
  IN (op.type = "restore" /\ after.type = "restore") =>
       /\ Len(after.setCalls) > Len(op.setCalls) =>
            (op.pc = "stores" /\ RecordRead(op))
       /\ (Len(after.writes) > Len(op.writes) \/ Len(after.applied) > Len(op.applied)) =>
            /\ op.pc \in {"cookies.set", "ls.write"} \cup WritePcs
            /\ Len(op.setCalls) = Len(op.cookies)
       /\ after.created > op.created =>
            /\ op.pc = "wl.create"
            /\ HasKey(op.localStorageMap, currentOrigin) =>
                 (op.applied # <<>> /\ op.applied[1].origin = currentOrigin
                    /\ op.applied[1].data = Lookup(op.localStorageMap, currentOrigin))
       /\ after.reloads > op.reloads => after.pc = "tabs.reload"
       /\ (op.reloads > 0 /\ after.pc # "idle") =>
            /\ after.pc \in {"tabs.reload", "done", "failed"}
            /\ after.setCalls = op.setCalls /\ after.writes = op.writes
            /\ after.applied = op.applied /\ after.created = op.created
            /\ after.reloads = op.reloads

C33_RestoreOrder == [][\A o \in OpIds : C33_Order(o)]_vars

C33_Witness ==
  \E o \in OpIds :
    /\ ops[o].type = "restore" /\ ops[o].pc = "done"
    /\ variant = "scoped" /\ ops[o].apiPassword # ""
    /\ ops[o].setCalls # <<>> /\ Len(ops[o].applied) >= 2
    /\ ops[o].created >= 1 /\ ops[o].reloads = 1

\* C34: in a restore, a failed cookie-set or a failed write of the active
\* origin fails the restore, and no later step runs: no background tab, no
\* reload and, after a failed cookie-set, no storage write.
OwnWriteDone(op) ==
  HasKey(op.localStorageMap, UrlOrigin(op.tabUrl)) =>
    /\ op.applied # <<>>
    /\ op.applied[1].origin = UrlOrigin(op.tabUrl)

C34_Past(op) ==
  (op.type = "restore" /\ (op.pc \in WritePcs \cup {"tabs.reload", "done"}
                             \/ op.created > 0 \/ op.reloads > 0)) =>
    (Len(op.setCalls) = Len(op.cookies) /\ OwnWriteDone(op))

C34_CanFail(o) ==
  (ops[o].type = "restore" /\ (ops[o].pc = "ls.write"
                                 \/ (ops[o].pc = "cookies.set" /\ ops[o].setCalls # <<>>))) =>
    ENABLED Fails(o)

C34_FailedStep(o) ==
  LET op == ops[o]
      after == ops'[o]
      own == {t \in openTabs' : t.id[1] = o}
  IN op.type = "restore" =>
       /\ (op.pc = "cookies.set" /\ after.pc = "failed") =>
            /\ after.err = "ApiError"
            /\ after.writes = <<>> /\ after.applied = <<>>
            /\ after.created = 0 /\ after.reloads = 0
       /\ (op.pc = "ls.write" /\ after.pc = "failed") =>
            /\ after.err = "ApiError"
            /\ after.writes = op.writes /\ after.applied = <<>>
            /\ after.created = 0 /\ after.reloads = 0
       /\ op.pc = "failed" =>
            /\ after = op \/ (after.pc = "idle" /\ after.replies # <<>>
                                 /\ ~after.replies[Len(after.replies)].ok)
            /\ own \subseteq openTabs

C34_FailureStopsRestore ==
  /\ [](\A o \in OpIds : C34_Past(ops[o]) /\ C34_CanFail(o))
  /\ [][\A o \in OpIds : C34_FailedStep(o)]_vars

\* a cookie-set failed: nothing was written
C34_Witness ==
  \E o \in OpIds :
    /\ ops[o].type = "restore" /\ ops[o].pc = "failed" /\ ops[o].err = "ApiError"
    /\ ops[o].setCalls # <<>> /\ ops[o].writes = <<>>
    /\ StorageOf(ops[o].response[1].data) # EmptyObject

\* the write of the active origin failed: no tab, no reload
C34_WitnessOwnWrite ==
  \E o \in OpIds :
    /\ ops[o].type = "restore" /\ ops[o].pc = "failed" /\ ops[o].err = "ApiError"
    /\ ops[o].writes # <<>> /\ ops[o].applied = <<>>
    /\ Len(Keys(ops[o].localStorageMap)) >= 2

\* C35: every request of a backup, restore, delete or check to the remote
\* store is on the /e2e path exactly when the password that operation read
\* from the settings is non-empty, so operations that read the same
\* password address the same path family.
StoreRequests(op) ==
  {op.requests[k] : k \in {j \in 1..Len(op.requests) : op.requests[j] # ProbeRequest}}

UnderE2E(request) == <<request.path[1]>> = E2E_PREFIX

PathRule(op) ==
  \A request \in StoreRequests(op) : UnderE2E(request) <=> op.apiPassword # ""

SameFamily(a, b) ==
  (a.apiPassword = b.apiPassword) =>
    \A r \in StoreRequests(a), q \in StoreRequests(b) : UnderE2E(r) <=> UnderE2E(q)

C35_PathRuleScoped ==
  variant = "scoped" =>
    /\ \A o \in OpIds : PathRule(ops[o])
    /\ \A o, p \in OpIds : SameFamily(ops[o], ops[p])

C35_Witness ==
  \E o \in OpIds :
    /\ variant = "scoped" /\ ops[o].type = "check" /\ ops[o].pc = "done"
    /\ ops[o].apiPassword # ""
    /\ \E request \in StoreRequests(ops[o]) : request.path[2] = "/status"

C35_WitnessDelete ==
  \E o \in OpIds :
    /\ variant = "scoped" /\ ops[o].type = "delete" /\ ops[o].pc = "done"
    /\ ops[o].apiPassword # ""
    /\ \E request \in StoreRequests(ops[o]) : request.path[2] = "/backup"

\* C35 as stated, for both variants: the plain variant has no /e2e path
C35_PathRuleAnyVariant ==
  \A o \in OpIds : PathRule(ops[o])

\* C36: in the identity-scoped variant no request carries the password or
\* the key derived from it: not in the path, not in a header, not in the
\* body, whose only password-dependent part is the ciphertext; with another
\* non-empty password the same requests are sent, up to payload, salt and
\* nonce.
EnvelopeFields == {"payload", "salt", "nonce"}

Shows(request, secret) ==
  \/ \E k \in 1..Len(request.path) : request.path[k] = secret
  \/ \E h \in DOMAIN request.headers : request.headers[h] = secret
  \/ \E f \in DOMAIN request.body :
       \/ f \notin IdentityFields \cup EnvelopeFields
       \/ f \in {"user_id", "device"} /\ request.body[f] = secret
       \/ f = "domain" /\ \E k \in 1..Len(request.body[f]) : request.body[f][k] = secret
       \/ f = "salt" /\ request.body[f] \notin {bytesToBase64(salt) : salt \in Salts}
       \/ f = "nonce" /\ request.body[f] \notin {bytesToBase64(nonce) : nonce \in Nonces}
       \/ f = "payload" /\ ~(request.body[f][1] = "b64" /\ "tag" \in DOMAIN request.body[f][2])

Blind(request) ==
  [request EXCEPT !.body = IF "payload" \in DOMAIN request.body
                             THEN [f \in DOMAIN request.body \ EnvelopeFields |-> request.body[f]]
                             ELSE request.body]

\* the requests the handler sends when the password it reads is `password`
RequestsWith(op, password) ==
  LET all == CASE op.type = "backup" -> <<ScopedBackupRequest(op, password, "salt1", "nonce1")>>
               [] op.type = "restore" -> <<ScopedRestoreRequest(op, password)>>
               [] op.type = "delete" -> <<DeleteRequest(op, password)>>
               [] op.type = "check" -> <<ProbeRequest, StatusRequest(op, password)>>
               [] OTHER -> <<>>
  IN SubSeq(all, 1, Len(op.requests))

C36_PasswordStaysLocal ==
  \A o \in OpIds :
    (variant = "scoped" /\ ops[o].apiPassword # "") =>
      /\ \A k \in 1..Len(ops[o].requests) : ~Shows(ops[o].requests[k], ops[o].apiPassword)
      /\ \A password \in Passwords \ {""} :
           [k \in 1..Len(ops[o].requests) |-> Blind(ops[o].requests[k])]
             = [k \in 1..Len(ops[o].requests) |-> Blind(RequestsWith(ops[o], password)[k])]

C36_Witness ==
  \E o \in OpIds :
    /\ variant = "scoped" /\ ops[o].type = "backup" /\ ops[o].pc = "done"
    /\ ops[o].apiPassword = "pw2" /\ ops[o].cookies # <<>>
    /\ "payload" \in DOMAIN ops[o].requests[1].body

C36_WitnessRestore ==
  \E o \in OpIds :
    /\ variant = "scoped" /\ ops[o].type = "restore" /\ ops[o].pc = "done"
    /\ ops[o].apiPassword # "" /\ ops[o].requests # <<>>

\* C37: in the popup every action, answered with success or failure, is
\* followed by one status check, and the three buttons are disabled from
\* the click until that check is answered; when a check is answered,
\* Backup and Restore are enabled iff it reported the backend reachable and
\* Delete iff it also reported a backup; a check that fails disables all.
DoneMessages == {"backup_done", "restore_done", "delete_done", "delete_missing"}

\* an action was answered and no check has been answered since: the check
\* that handleAction's finally block sent is still in flight
FollowingCheckPending == popup.status \in DoneMessages

C37_DisabledUntilChecked ==
  popup.open =>
    ((popup.actions # <<>> \/ FollowingCheckPending) => \A b \in Buttons : popup.disabled[b])

\* the same when popup.html ships the three buttons disabled
C37_DisabledUntilCheckedShippedDisabled ==
  (popup.open /\ popup.markup = "disabled") =>
    ((popup.actions # <<>> \/ FollowingCheckPending) => \A b \in Buttons : popup.disabled[b])

\* one check per answered action, and the buttons as the answered check says
C37_CheckStep ==
  [][/\ Len(popup'.actions) < Len(popup.actions) => popup'.checks = popup.checks + 1
     /\ popup'.checks < popup.checks =>
          /\ ~popup'.disabled["backup"] <=> popup'.backendStatus = "connected"
          /\ ~popup'.disabled["restore"] <=> popup'.backendStatus = "connected"
          /\ ~popup'.disabled["delete"] <=> (popup'.backendStatus = "connected"
                                                /\ popup'.backupStatus = "found")]_vars

\* C38: the message of an answered action (its summary, or its error text)
\* is still the displayed status when the check that follows the action
\* has been answered with the backend reachable.
C38_MessageKept ==
  [][(popup.open /\ popup.status \in DoneMessages /\ popup.checks = 1
        /\ popup'.checks = 0 /\ popup'.backendStatus = "connected")
       => popup'.status = popup.status]_vars

----------------------------------------------------------------------------
(* Termination: every awaited call returns, and the timer of             *)
(* waitForTabLoad fires when no tab event settles the wait first          *)

\* the next step of handler o: the call it awaits returns or throws, or
\* its settled promise is answered
Step(o) ==
  \/ StepOutsideLoop(o)
  \/ RL_Create(o) \/ RL_Wait(o) \/ RL_Get(o) \/ RL_Exec(o) \/ RL_Remove(o)
  \/ WL_Create(o) \/ WL_Wait(o) \/ WL_Get(o) \/ WL_Exec(o) \/ WL_Remove(o)
  \/ D_Json(o)
  \/ Respond(o)

\* a web page is active whose cookies name one other host
InitLive ==
  /\ variant \in {"scoped", "plain"}
  /\ settings = [apiPassword |-> "pw1",
                 userId |-> IF variant = "plain" THEN "" ELSE "user-1"]
  /\ activeTab = [id |-> ActiveTabId, url |-> ActiveUrl]
  /\ jar = <<SessionCookie, HostCookie>>
  /\ ops = [o \in OpIds |-> IdleOp]
  /\ lanes = {1}
  /\ openTabs = {}
  /\ remote = NoRecord
  /\ popup = NoPopup
  /\ call = NoCall

\* commands arrive, handlers run, and the user may close any tab
NextLive ==
  \/ \E o \in OpIds, type \in Commands : Receive(o, type)
  \/ \E o \in OpIds : Step(o)
  \/ \E t \in openTabs : TabCloses(t.id)

SpecLive == InitLive /\ [][NextLive]_vars /\ \A o \in OpIds : WF_vars(Step(o))

\* C39: every operation that was started completes and is answered; a
\* backup opens at most two tabs for each candidate host and a restore at
\* most one for each stored origin.
IsAnswered(o) == ops[o].pc = "idle" /\ ops[o].replies # <<>>

TabBound(op) ==
  /\ op.type = "backup" =>
       /\ op.created <= 2 * Len(Others(op))
       /\ \A i \in 1..Len(op.hosts) : Len(AttemptsAt(op, op.hosts[i])) <= 2
  /\ op.type = "restore" =>
       /\ op.created <= Len(Others(op))
       /\ \A i \in 1..Len(op.hosts) : Len(AttemptsAt(op, op.hosts[i])) <= 1

C39_Terminates ==
  /\ [](\A o \in OpIds : TabBound(ops[o]))
  /\ \A o \in OpIds : (ops[o].pc # "idle") ~> IsAnswered(o)

C39_Witness ==
  \E o \in OpIds :
    /\ ops[o].type = "backup" /\ ops[o].pc = "done"
    /\ ops[o].created = 2 * Len(Others(ops[o])) /\ ops[o].created > 0

C39_WitnessRestore ==
  \E o \in OpIds :
    /\ ops[o].type = "restore" /\ ops[o].pc = "done"
    /\ ops[o].created = Len(Others(ops[o])) /\ ops[o].created > 0

============================================================================
